---- MODULE Spec2Model ----
(***************************************************************************)
(* A model of MultiPingTUI (mping): the per-target state fold              *)
(* (PWStats.ComputeState), the fleet orchestrator (WrapperHolder), the     *)
(* periodic reverse-DNS activity, the TUI snapshot cache and the main      *)
(* program's shutdown path.                                                *)
(*                                                                         *)
(* The module holds several specifications, one per subsystem.  Each one   *)
(* moves its own group of variables and leaves the other groups at their   *)
(* initial values:                                                         *)
(*   SpecStats  one PWStats under a clock, probe replies and computes      *)
(*   SpecStart  RunTUI's startup: the fleet Start() with its semaphore,    *)
(*              the 60 s budget, the interrupt, the quit and the exit      *)
(*   SpecDns    the orchestrator's periodic reverse-DNS activity under     *)
(*              StartPeriodicDNSUpdates, Stop and ReplaceHosts             *)
(*   SpecTui    the TUI model under Update: ticks that fill the stats      *)
(*              cache, the host editor and its hot replace, the filter     *)
(*              key, the quit key, and View()                              *)
(*   SpecMain   the main program: the legacy loop with its interrupt       *)
(*              handler, and RunTUI up to the exit of the process;         *)
(*              SpecMainFair adds the scheduling assumptions               *)
(*   SpecPass   one pass of performDNSUpdates over the target list         *)
(*   SpecView   getFilteredWrappers on lists of targets: the filters and   *)
(*              the comparators of the sort modes                          *)
(*   SpecRepl   ReplaceHosts step by step, with concurrent Wrappers()      *)
(*              calls, callers that change the returned slice, and probe   *)
(*              replies                                                    *)
(*   SpecCidr   ExpandCIDR on every block of a narrow address space        *)
(*   SpecOnce   RunPingOnce: the workers behind the semaphore, the closer  *)
(*              and the collector; SpecOnceFair adds the scheduling        *)
(*              assumption                                                 *)
(*   SpecLookup hostDisplayName: its checks and the reverse lookup         *)
(*   SpecCache  the caching DNSUpdater: one wrapper and the cache entry    *)
(*   SpecNav    the TUI model under Update: cursor, scroll offset, hidden  *)
(*              hosts and the host editor                                   *)
(*              of its IP over the passes                                  *)
(* Time is counted in units of one second (the source counts nanoseconds). *)
(***************************************************************************)
EXTENDS Integers, Sequences, FiniteSets, TLC

VARIABLES
    \* ---- SpecStats: one target's PWStats ----
    clock,      \* time.Now().UnixNano(), in model time units
    st,         \* the PWStats record of the target
    written,    \* the strings handed to transition_writer.WriteString, in order
    op,         \* the operation that produced the current state
    \* ---- SpecStart: WrapperHolder.Start() under RunTUI ----
    fleetN,     \* len(wrappers), the fleet Start() was called with
    launchPc,   \* the launching path of Start(): idle, loop, wait, returned
    launchIdx,  \* i, the index of the next wrapper of the launching loop
    gWait,      \* launcher goroutines spawned that hold no semaphore slot yet
    gIn,        \* launcher goroutines that are inside pw.Start()
    sem,        \* the number of tokens in the channel sem
    wg,         \* the WaitGroup counter
    startCalls, \* how many times a pw.Start() was invoked
    panics,     \* how many pw.Start() calls panicked (and were recovered)
    failErrs,   \* the error_message values of the strategies whose Start() panicked
    startErr,   \* the number of errors in the channel startErr (capacity 1)
    pauses,     \* how many 1 ms sleeps the launching path took
    running,    \* strategies whose Start() returned and that were not stopped since
    startDone,  \* the number of values in the channel startDone (capacity 1)
    tuiPc,      \* RunTUI: select, tui, quit, returned, exited
    tuiErr,     \* the error RunTUI returns ("" for none)
    stopCalls,  \* how many times WrapperHolder.Stop() was called
    \* ---- SpecDns: the periodic reverse-DNS activity of WrapperHolder ----
    skipDNS,          \* the process flag SkipDNS (-no-dns)
    dnsUpdateRunning, \* w.dnsUpdateRunning
    dnsUpdateStop,    \* w.dnsUpdateStop: the channel made by the n-th start, 0 for nil
    closedChans,      \* the stop channels that were closed
    closePanic,       \* a close of a nil or closed channel has panicked
    dnsG,             \* the DNS goroutines: n-th start |-> program point and lookups
    dnsStarted,       \* how many DNS goroutines were spawned
    fleetSize,        \* len(w.ping_wrappers)
    listGen,          \* which list w.ping_wrappers holds: the n-th one installed
    fleetStopped,     \* Stop() was called on every wrapper of the current list
    replPc,           \* ReplaceHosts: idle, install, restart
    replHosts,        \* the length of the list ReplaceHosts was called with
    lastCall,         \* the last orchestrator call and how often it was repeated
    \* ---- SpecTui: the TUI model under Update ----
    wrappers,      \* the hosts of m.wh.Wrappers(), in list order
    wrapperGen,    \* which list the wrappers belong to: the n-th one installed
    everInstalled, \* the host sets of all lists the orchestrator ever held
    statsCache,    \* m.statsCache: host |-> the list whose wrapper gave the stats, 0 for no key
    editingHosts,  \* m.editingHosts
    hostInput,     \* m.hostInput, as the host list it parses to
    quitting,      \* m.quitting
    uiStops,       \* how many times Update called m.wh.Stop()
    tuiFilter,     \* m.filterMode of the TUI model
    viewed,        \* View() has listed the targets under filter All
    viewCache,     \* m.statsCache as it was at the last such View()
    viewOut,       \* the (host, stats) pairs the last such View() listed
    viewMisses,    \* the hosts whose stats the last listing computed itself
    \* ---- SpecMain: the main program and its interrupt handler ----
    mode,       \* display, quiet (legacy modes) or tui
    mainPc,     \* main: init, dns, loop, recv, tuistart, tui, tuiquit, done
    handlerPc,  \* the interrupt handler goroutine: none, wait, stop, flag, send, done
    cBuf,       \* the number of signals in the channel c (capacity 1)
    sigs,       \* how many interrupts the process was sent
    quitFlag,   \* the variable quitFlag
    iters,      \* how many times the body of the main loop ran
    whRunning,  \* the strategies were started and not stopped since
    whDns,      \* the periodic DNS activity is running
    whStops,    \* how many times WrapperHolder.Stop() was called
    mEditing,   \* the TUI's host editor is open
    mQuitting,  \* Update has returned tea.Quit
    exitCode,   \* the exit status of the process, -1 while it runs
    \* ---- SpecPass: one reverse-DNS pass after the other over named targets ----
    pwUp,          \* target |-> the state a CalcStats(2 s) of its wrapper yields now
    pwErr,         \* target |-> its error_message is not empty
    pwHrepr,       \* target |-> its hrepr
    passPc,        \* performDNSUpdates: idle, scan (the loop over the wrappers), wait (wg.Wait)
    passIdx,       \* the index of the next wrapper the loop examines
    lookup,        \* target |-> its lookup goroutine in this pass: none, spawned, running, done
    examined,      \* target |-> what the pass saw when it examined it, none before that
    hreprAtStart,  \* pwHrepr when the pass began
    passCount,      \* how many passes began
    \* ---- SpecView: getFilteredWrappers over given wrappers and configurations ----
    viewWrappers,  \* the wrappers of m.wh.Wrappers() with the stats getCachedStats yields for them
    hiddenHosts,   \* m.hiddenHosts, as the set of hidden hosts
    filterMode,    \* m.filterMode
    sortMode,      \* m.sortMode
    filtered,      \* what the last getFilteredWrappers() returned
    evaluated,      \* getFilteredWrappers() was called
    \* ---- SpecRepl: ReplaceHosts and Wrappers() ----
    ping_wrappers,  \* w.ping_wrappers: the backing array the slice refers to
    heap,           \* the backing arrays: array |-> its slots, a slot holds a wrapper or nil (0)
    arrays,         \* how many backing arrays were made
    wr,             \* the PingWrapper objects: wrapper |-> host, started, stopped, seen
    made,           \* how many PingWrapper objects were made
    mu,             \* w.mu: free or held by a writer
    rhPc,           \* the position of ReplaceHosts
    rhHosts,        \* hosts, the argument of ReplaceHosts
    rhOld,          \* old, the slice ReplaceHosts took out of the holder
    rhNew,          \* newWrappers
    rhIdx,          \* the index of the loop ReplaceHosts is in
    pauseAt,        \* the indices after which the last ReplaceHosts slept
    rhDnsRunning,   \* w.dnsUpdateRunning
    out,            \* the slice the last Wrappers() of another goroutine returned (0: none)
    reads,          \* how many times another goroutine called Wrappers()
    replies,        \* how many probe replies arrived
    lists,          \* the host lists handed to InitHosts and to every ReplaceHosts
    obsAfter,       \* what could be observed when each ReplaceHosts returned
    rhOp,            \* the step that produced the current state
    \* ---- SpecCidr: ExpandCIDR ----
    cidrAddr,    \* the address of the CIDR string, as a number of AddrBits bits
    cidrPrefix,  \* the prefix length of the CIDR string
    cidrIp,      \* ip, the loop variable of ExpandCIDR
    ips,         \* ips, the list ExpandCIDR builds and returns
    cidrPc,       \* ExpandCIDR: loop, returned, or oom when the list outgrew the memory
    \* ---- SpecOnce: RunPingOnce ----
    onceN,        \* len(hosts) of RunPingOnce
    onlyOnline,   \* the onlyOnline flag
    onlyOffline,  \* the onlyOffline flag
    answers,      \* the outcomes the targets of this run can have
    spawned,      \* worker goroutines the launching loop has created
    waiting,      \* workers blocked on the send to sem
    inflight,     \* workers that hold a slot of sem
    finished,     \* workers that have returned (wg.Done)
    results,      \* len(results), the results buffered in the channel
    closed,       \* results has been closed
    resultList,   \* len(resultList) of the collector
    oncePc,        \* RunPingOnce itself: launch, collect, done
    \* ---- SpecLookup: hostDisplayName ----
    hdOriginal,  \* original, the target as the user gave it
    hdIp,        \* ip, the resolved address (nil or not)
    hdAnswer,    \* what the resolver answers when it does: names and err
    hdPc,        \* hostDisplayName: entry, lookup (inside net.LookupAddr), returned
    hdAge,       \* the time since net.LookupAddr was called, in units of 100 ms
    hdResult,     \* the string hostDisplayName returned
    \* ---- SpecCache: the caching DNSUpdater ----
    cacheNow,  \* time.Now(), in units of 5 minutes
    dnsCache,  \* d.dnsCache[ip] of the one IP: found, name, expiresAt
    cHrepr,    \* the hrepr of the wrapper of that IP
    cUp,       \* a CalcStats(2 s) of the wrapper yields an online target without error
    cPc,       \* the pass at the wrapper: idle, spawned (its goroutine was created), lookup (inside updateHostDisplayName)
    cOp,        \* the step that produced the current state
    \* ---- SpecNav: the navigation and the host editor of the TUI model ----
    navWrappers,   \* m.wh.Wrappers(), as the list of their hosts
    navStats,      \* host |-> the reply history in the PWStats getCachedStats yields for it
    navHidden,     \* m.hiddenHosts, as the set of hidden hosts
    navFilter,     \* m.filterMode
    navSort,       \* m.sortMode
    cursor,        \* m.cursor
    scrollOffset,  \* m.scrollOffset
    height,        \* m.height
    showDetails,   \* m.showDetails
    navEditing,    \* m.editingHosts
    navInput,      \* m.hostInput, as the host list parseHostsInput makes of it
    navQuitting,   \* m.quitting
    navLast        \* the last message Update handled, the command it returned, the call it made on the orchestrator

statsVars == <<clock, st, written, op>>

startVars == <<fleetN, launchPc, launchIdx, gWait, gIn, sem, wg, startCalls,
               panics, failErrs, startErr, pauses, running, startDone, tuiPc,
               tuiErr,
               stopCalls>>

dnsVars == <<skipDNS, dnsUpdateRunning, dnsUpdateStop, closedChans, closePanic,
             dnsG, dnsStarted, fleetSize, listGen, fleetStopped, replPc,
             replHosts, lastCall>>

tuiVars == <<wrappers, wrapperGen, everInstalled, statsCache, editingHosts,
             hostInput, quitting, uiStops, tuiFilter, viewed, viewCache, viewOut,
             viewMisses>>

\* What View() records.
viewRecord == <<viewed, viewCache, viewOut, viewMisses>>

mainVars == <<mode, mainPc, handlerPc, cBuf, sigs, quitFlag, iters, whRunning,
              whDns, whStops, mEditing, mQuitting, exitCode>>

passVars == <<pwUp, pwErr, pwHrepr, passPc, passIdx, lookup, examined,
              hreprAtStart, passCount>>

viewVars == <<viewWrappers, hiddenHosts, filterMode, sortMode, filtered,
              evaluated>>

replVars == <<ping_wrappers, heap, arrays, wr, made, mu, rhPc, rhHosts, rhOld,
              rhNew, rhIdx, pauseAt, rhDnsRunning, out, reads, replies, lists,
              obsAfter, rhOp>>

cidrVars == <<cidrAddr, cidrPrefix, cidrIp, ips, cidrPc>>

onceVars == <<onceN, onlyOnline, onlyOffline, answers, spawned, waiting,
              inflight, finished, results, closed, resultList, oncePc>>

lookupVars == <<hdOriginal, hdIp, hdAnswer, hdPc, hdAge, hdResult>>

cacheVars == <<cacheNow, dnsCache, cHrepr, cUp, cPc, cOp>>

navVars == <<navWrappers, navStats, navHidden, navFilter, navSort, cursor,
             scrollOffset, height, showDetails, navEditing, navInput,
             navQuitting, navLast>>

vars == <<statsVars, startVars, dnsVars, tuiVars, mainVars, passVars, viewVars, replVars, cidrVars, onceVars, lookupVars, cacheVars, navVars>>

\* What each specification leaves alone.
notStatsVars == <<startVars, dnsVars, tuiVars, mainVars, passVars, viewVars, replVars, cidrVars, onceVars, lookupVars, cacheVars, navVars>>
notStartVars == <<statsVars, dnsVars, tuiVars, mainVars, passVars, viewVars, replVars, cidrVars, onceVars, lookupVars, cacheVars, navVars>>
notDnsVars == <<statsVars, startVars, tuiVars, mainVars, passVars, viewVars, replVars, cidrVars, onceVars, lookupVars, cacheVars, navVars>>
notTuiVars == <<statsVars, startVars, dnsVars, mainVars, passVars, viewVars, replVars, cidrVars, onceVars, lookupVars, cacheVars, navVars>>
notMainVars == <<statsVars, startVars, dnsVars, tuiVars, passVars, viewVars, replVars, cidrVars, onceVars, lookupVars, cacheVars, navVars>>
notPassVars == <<statsVars, startVars, dnsVars, tuiVars, mainVars, viewVars, replVars, cidrVars, onceVars, lookupVars, cacheVars, navVars>>
notViewVars == <<statsVars, startVars, dnsVars, tuiVars, mainVars, passVars, replVars, cidrVars, onceVars, lookupVars, cacheVars, navVars>>
notReplVars == <<statsVars, startVars, dnsVars, tuiVars, mainVars, passVars,
                 viewVars, cidrVars, onceVars, lookupVars, cacheVars, navVars>>
notCidrVars == <<statsVars, startVars, dnsVars, tuiVars, mainVars, passVars,
                 viewVars, replVars, onceVars, lookupVars, cacheVars, navVars>>
notOnceVars == <<statsVars, startVars, dnsVars, tuiVars, mainVars, passVars,
                 viewVars, replVars, cidrVars, lookupVars, cacheVars, navVars>>
notLookupVars == <<statsVars, startVars, dnsVars, tuiVars, mainVars, passVars,
                   viewVars, replVars, cidrVars, onceVars, cacheVars, navVars>>
notCacheVars == <<statsVars, startVars, dnsVars, tuiVars, mainVars, passVars,
                  viewVars, replVars, cidrVars, onceVars, lookupVars, navVars>>
notNavVars == <<statsVars, startVars, dnsVars, tuiVars, mainVars, passVars,
                viewVars, replVars, cidrVars, onceVars, lookupVars, cacheVars>>

(***************************************************************************)
(* Bounds and program constants                                            *)
(***************************************************************************)

\* How far the clock of SpecStats advances.
MaxTicks == 6

\* The largest fleet SpecStart starts.
MaxFleet == 22

\* How many pw.Start() calls of one fleet start may panic.
MaxPanics == 2

\* How many times SpecDns starts the periodic DNS activity.
MaxDnsStarts == 2

\* The largest fleet of SpecDns.
MaxDnsFleet == 11

\* The longest host list of SpecTui.
MaxHosts == 2

\* How many times SpecTui replaces the host list.
MaxTuiReplaces == 1

\* The longest of the short host lists of SpecRepl.
MaxReplShort == 2

\* The length of the long host list of SpecRepl.
MaxReplFleet == 13

\* How many times SpecRepl calls ReplaceHosts.
MaxRepl == 2

\* How many times another goroutine calls Wrappers() in SpecRepl.
MaxReads == 1

\* How many probe replies arrive in SpecRepl.
MaxReplies == 1

\* The width of an address of SpecCidr in bits (an IPv4 address has 32).
AddrBits == 4

\* sem := make(chan struct{}, 100) of RunPingOnce
OnceConcurrency == 100

\* The fleets of SpecOnce: every fleet of at most MaxOnceSmall targets, with
\* every flag and every outcome, and one fleet of MaxOnceFleet targets that
\* all answer, without flags.
MaxOnceSmall == 2
MaxOnceFleet == 101

\* The deadline the documentation gives for one reverse lookup: 500 ms, in
\* units of 100 ms.
LookupDeadline == 5

\* How long SpecLookup lets a resolver take to answer, in units of 100 ms.
MaxLookupAge == 7

\* The lifetime of a cache entry of the caching DNSUpdater after a successful
\* lookup (1 hour) and after a failed one (5 minutes), in units of 5 minutes.
PositiveTtl == 12
NegativeTtl == 1

\* How far the clock of SpecCache advances, in units of 5 minutes.
MaxCacheClock == 14

\* The lines of the screen the list does not get: title, header, spacing,
\* table header, separator and two lines of help.
ChromeLines == 7

\* The height of the window of SpecNav once its size is known: two lines for
\* the list.
MaxHeight == 9

\* How many iterations of the legacy main loop SpecMain counts.
MaxLoopIters == 3

\* How many interrupts the process is sent in SpecMain.
MaxSignals == 2

\* The targets of SpecPass.
MaxPassTargets == 2

\* How many passes SpecPass runs.
MaxPasses == 2

\* sem := make(chan struct{}, 20) in performDNSUpdates: the concurrent lookups
\* of one pass.
DnsConcurrency == 20

\* sem := make(chan struct{}, 20): the concurrent starts allowed.
StartConcurrency == 20

\* The alive cutoff every caller passes to CalcStats/ComputeState: 2 * 1e9 ns.
TimeoutThreshold == 2

\* The wall clock when the program starts: far beyond the cutoff, so that a
\* target that never replied (lastrecv = 0) is down.
StartClock == TimeoutThreshold + 1

(***************************************************************************)
(* PWStats and ComputeState                                                *)
(***************************************************************************)

\* The zero value of PWStats (the fields ComputeState reads or writes, and
\* the two labels it copies into a transition record).
ZeroStats ==
    [ lastrecv               |-> 0,
      last_loss_nano         |-> 0,
      last_loss_duration     |-> 0,
      last_seen_nano         |-> 0,
      state                  |-> FALSE,
      has_ever_received      |-> FALSE,
      state_initialized      |-> FALSE,
      skip_next_up_highlight |-> FALSE,
      last_up_transition     |-> 0,
      startup_time           |-> 0,
      last_compute           |-> 0,
      uptime_nano            |-> 0,
      error_message          |-> "",
      hrepr                  |-> "host",
      iprepr                 |-> "ip" ]

\* A fold that takes every target as up, whatever the age of its last reply.
NewStateOf_NoThreshold(last_seen_nano, timeout_threshold) == TRUE

\* new_state := p.last_seen_nano < timeout_threshold
NewStateOf(last_seen_nano, timeout_threshold) == last_seen_nano < timeout_threshold

\* A fold that credits the interval since the last compute whatever the
\* previous state was.
UptimeCredit_AlsoWhileDown(prevState, now, last_compute) ==
    now - last_compute

\* The uptime credit of one compute: now - last_compute while the previous
\* state was online, nothing otherwise.
UptimeCredit(prevState, now, last_compute) ==
    IF prevState THEN now - last_compute ELSE 0

\* A fold that writes a record on every compute that finds the target up.
EmitsTransition_WheneverUp(committed_state, new_state) == new_state

\* The condition under which ComputeState marshals a record: p.state != new_state.
EmitsTransition(committed_state, new_state) == committed_state # new_state

\* A record stamped with the time of the last reply instead of the time of
\* the compute.
TransitionRecord_StampsLastReceive(p, now, new_state) ==
    [ UnixNano   |-> p.lastrecv,
      Host       |-> p.hrepr,
      Ip         |-> p.iprepr,
      Transition |-> IF new_state THEN "down to up" ELSE "up to down",
      State      |-> new_state ]

\* The JSON object of one transition (Timestamp is time.Unix(0, now).String(),
\* a rendering of UnixNano, and is left out).
TransitionRecord(p, now, new_state) ==
    [ UnixNano   |-> now,
      Host       |-> p.hrepr,
      Ip         |-> p.iprepr,
      Transition |-> IF new_state THEN "down to up" ELSE "up to down",
      State      |-> new_state ]

\* A down-to-up branch that records the loss event only when it also sets the
\* highlight.
DownToUp_LossOnlyWithHighlight(p, now, old_last_seen) ==
    IF p.skip_next_up_highlight
    THEN [ p EXCEPT !.skip_next_up_highlight = FALSE ]
    ELSE [ p EXCEPT !.last_up_transition = now,
                    !.last_loss_nano = now,
                    !.last_loss_duration = old_last_seen ]

\* A down-to-up branch that sets the highlight on every up-edge, the first
\* one included.
DownToUp_AlwaysHighlights(p, now, old_last_seen) ==
    [ p EXCEPT !.skip_next_up_highlight = FALSE,
               !.last_up_transition = now,
               !.last_loss_nano = now,
               !.last_loss_duration = old_last_seen ]

\* The down-to-up branch: the highlight is skipped once, the loss event is
\* always recorded.
DownToUp(p, now, old_last_seen) ==
    [ p EXCEPT !.skip_next_up_highlight = FALSE,
               !.last_up_transition = IF p.skip_next_up_highlight THEN @ ELSE now,
               !.last_loss_nano = now,
               !.last_loss_duration = old_last_seen ]

\* A first observation that falls through to the transition check instead of
\* returning: an up target is reported as a transition from the zero state.
FirstObservation_FallsThrough(p, now, new_state) ==
    [ stats |-> [ p EXCEPT !.state_initialized = TRUE,
                           !.skip_next_up_highlight = TRUE,
                           !.state = new_state,
                           !.last_compute = now ],
      emitted |-> IF p.state # new_state
                  THEN << TransitionRecord(p, now, new_state) >>
                  ELSE << >> ]

\* The first observation path (!prevSeen): the baseline is stored and the
\* call returns before any transition is marked.
FirstObservation(p, now, new_state) ==
    [ stats |-> [ p EXCEPT !.state_initialized = TRUE,
                           !.skip_next_up_highlight = TRUE,
                           !.state = new_state,
                           !.last_compute = now ],
      emitted |-> << >> ]

\* ComputeState(timeout_threshold) at wall clock now: the new PWStats and the
\* records it hands to the transition writer.
ComputeState(p, now, timeout_threshold) ==
    LET p1 == [ p EXCEPT !.startup_time = IF @ = 0 THEN now ELSE @,
                         !.last_compute = IF @ = 0 THEN now ELSE @ ]
        prevState == p1.state
        prevSeen == p1.state_initialized
        old_last_seen == p1.last_seen_nano
        p2 == [ p1 EXCEPT !.last_seen_nano = now - p1.lastrecv ]
        new_state == NewStateOf(p2.last_seen_nano, timeout_threshold)
    IN  IF ~prevSeen
        THEN FirstObservation(p2, now, new_state)
        ELSE LET p3 == [ p2 EXCEPT !.uptime_nano =
                                       @ + UptimeCredit(prevState, now, p2.last_compute) ]
                 p4 == IF ~prevState /\ new_state
                       THEN DownToUp(p3, now, old_last_seen)
                       ELSE p3
                 emitted == IF EmitsTransition(p4.state, new_state)
                            THEN << TransitionRecord(p4, now, new_state) >>
                            ELSE << >>
             IN  [ stats |-> [ p4 EXCEPT !.state = new_state, !.last_compute = now ],
                   emitted |-> emitted ]

\* An uptime query that counts the running interval from the start-up time.
OnlineUptime_SinceStartup(p, now) ==
    LET total == p.uptime_nano + (IF p.state THEN now - p.startup_time ELSE 0)
    IN  IF total < 0 THEN 0 ELSE total

\* OnlineUptime(now): the folded uptime plus the running interval of an
\* online target, never less than zero.
OnlineUptime(p, now) ==
    LET total == p.uptime_nano + (IF p.state THEN now - p.last_compute ELSE 0)
    IN  IF total < 0 THEN 0 ELSE total

(***************************************************************************)
(* SpecStats: one target                                                   *)
(***************************************************************************)

InitStatsVars ==
    /\ clock = StartClock
    /\ st = ZeroStats
    /\ written = << >>
    /\ op = "init"

\* RunTUI has not been entered; the fleet size is set when it is.
InitStartVars ==
    /\ fleetN = 0
    /\ launchPc = "idle"
    /\ launchIdx = 0
    /\ gWait = 0
    /\ gIn = 0
    /\ sem = 0
    /\ wg = 0
    /\ startCalls = 0
    /\ panics = 0
    /\ failErrs = {}
    /\ startErr = 0
    /\ pauses = 0
    /\ running = 0
    /\ startDone = 0
    /\ tuiPc = "select"
    /\ tuiErr = ""
    /\ stopCalls = 0

\* A DNS goroutine that was not spawned.
NoGoroutine == [ pc |-> "none", ch |-> 0, pending |-> 0, inflight |-> 0 ]

\* The orchestrator after InitHosts and the fleet Start(): a list is
\* installed, the DNS activity was not started.
InitDnsVars ==
    /\ skipDNS \in BOOLEAN
    /\ dnsUpdateRunning = FALSE
    /\ dnsUpdateStop = 0
    /\ closedChans = {}
    /\ closePanic = FALSE
    /\ dnsG = [ g \in 1..MaxDnsStarts |-> NoGoroutine ]
    /\ dnsStarted = 0
    /\ fleetSize \in {0, MaxDnsFleet}
    /\ listGen = 1
    /\ fleetStopped = FALSE
    /\ replPc = "idle"
    /\ replHosts = 0
    /\ lastCall = << "init", 1 >>

\* The values the other specifications keep for the DNS variables.
IdleDnsVars ==
    /\ InitDnsVars
    /\ skipDNS = FALSE
    /\ fleetSize = 0

\* The host names of SpecTui.
Hosts == {"A", "B", "C"}

\* The elements of a sequence.
Range(q) == { q[i] : i \in 1..Len(q) }

\* The host lists of SpecTui: every list of at most MaxHosts different hosts.
HostLists ==
    { q \in UNION { [1..n -> Hosts] : n \in 0..MaxHosts } : Cardinality(Range(q)) = Len(q) }

\* NewTUIModel over an orchestrator that holds the list of the command line:
\* an empty statsCache, the editor closed.
InitTuiVars ==
    /\ wrappers \in HostLists
    /\ wrapperGen = 1
    /\ everInstalled = {Range(wrappers)}
    /\ statsCache = [ h \in Hosts |-> 0 ]
    /\ editingHosts = FALSE
    /\ hostInput = << >>
    /\ quitting = FALSE
    /\ uiStops = 0
    /\ tuiFilter = "Smart"
    /\ viewed = FALSE
    /\ viewCache = [ h \in Hosts |-> 0 ]
    /\ viewOut = {}
    /\ viewMisses = {}

\* The values the other specifications keep for the TUI variables.
IdleTuiVars ==
    /\ InitTuiVars
    /\ wrappers = << >>

\* main after InitHosts: a mode was chosen on the command line, nothing was
\* started.
InitMainVars ==
    /\ mode \in {"display", "quiet", "tui"}
    /\ mainPc = "init"
    /\ handlerPc = "none"
    /\ cBuf = 0
    /\ sigs = 0
    /\ quitFlag = FALSE
    /\ iters = 0
    /\ whRunning = FALSE
    /\ whDns = FALSE
    /\ whStops = 0
    /\ mEditing = FALSE
    /\ mQuitting = FALSE
    /\ exitCode = -1

\* The values the other specifications keep for the variables of main.
IdleMainVars ==
    /\ InitMainVars
    /\ mode = "display"

\* The targets of SpecPass, in the order of w.Wrappers().
PassTargets == 1..MaxPassTargets

\* The labels a target can carry: the one it was created with and the name a
\* resolver may answer.
Labels == {"ip", "name"}

\* A target the pass has not examined.
NotExamined == [ seen |-> FALSE, state |-> FALSE, hasError |-> FALSE ]

\* The wrappers before the first pass: every label is the original one; which
\* targets are up and which carry an error is open.
InitPassVars ==
    /\ pwUp \in [PassTargets -> BOOLEAN]
    /\ pwErr \in [PassTargets -> BOOLEAN]
    /\ pwHrepr = [ t \in PassTargets |-> "ip" ]
    /\ passPc = "idle"
    /\ passIdx = 0
    /\ lookup = [ t \in PassTargets |-> "none" ]
    /\ examined = [ t \in PassTargets |-> NotExamined ]
    /\ hreprAtStart = [ t \in PassTargets |-> "ip" ]
    /\ passCount = 0

\* The values the other specifications keep for the variables of a pass.
IdlePassVars ==
    /\ InitPassVars
    /\ pwUp = [ t \in PassTargets |-> FALSE ]
    /\ pwErr = [ t \in PassTargets |-> FALSE ]

\* A wrapper as getFilteredWrappers sees it: Host() and the fields of the
\* PWStats that getCachedStats returns for it.  A target that is up and
\* never had a loss, without a DNS name and without a resolved address.
StableTarget(h) ==
    [ host |-> h, state |-> TRUE, error_message |-> "", has_ever_received |-> TRUE,
      lastrecv |-> 1, lastrtt |-> 1, last_loss_nano |-> 0, hrepr |-> "", iprepr |-> "" ]

\* The reply history of a target: it never got a reply, it got replies and is
\* down, or it is up.  (state needs a reply within the last 2 s.)
Presence(t, p) ==
    CASE p = "never" -> [ t EXCEPT !.state = FALSE, !.has_ever_received = FALSE,
                                   !.lastrecv = 0, !.lastrtt = 0, !.last_loss_nano = 0 ]
      [] p = "down"  -> [ t EXCEPT !.state = FALSE ]
      [] p = "up"    -> t

Presences == {"never", "down", "up"}

\* The address literals of the lists and "" for a target without address.
IpLiterals == {"", "10.0.0.2", "10.0.0.10", "::1", "2001:db8::1"}

\* Lists for the filters: three targets of every reply history, with and
\* without an error.
FilterTargets(h) ==
    { [ Presence(StableTarget(h), p) EXCEPT !.error_message = e ] :
        p \in Presences, e \in {"", "err"} }

FilterLists ==
    { << a, b, c >> : a \in FilterTargets("a"), b \in FilterTargets("b"),
                      c \in FilterTargets("c") }

\* Lists for the comparators: two targets that differ in every key a
\* comparator reads.
SortTargets(h) ==
    { Presence([ StableTarget(h) EXCEPT !.lastrtt = r, !.last_loss_nano = l,
                                        !.hrepr = n, !.iprepr = i ], p) :
        p \in Presences, r \in {1, 2}, l \in {0, 5}, n \in {"", "n"},
        i \in {"", "10.0.0.2", "::1"} }

SortLists ==
    UNION { { << a, b >>, << b, a >> } : a \in SortTargets("a"), b \in SortTargets("b") }

\* Lists for the sort by address: four stable targets with any addresses.
IpLists ==
    { << [ StableTarget("a") EXCEPT !.iprepr = i1 ], [ StableTarget("b") EXCEPT !.iprepr = i2 ],
         [ StableTarget("c") EXCEPT !.iprepr = i3 ], [ StableTarget("d") EXCEPT !.iprepr = i4 ] >> :
        i1 \in IpLiterals, i2 \in IpLiterals, i3 \in IpLiterals, i4 \in IpLiterals }

FilterModes == {"All", "Smart", "Online", "Offline"}

SortModes == {"Name", "Status", "RTT", "LastSeen", "IP"}

\* The inputs of SpecView: a list of wrappers with their stats and a view
\* configuration.
InitViewVars ==
    /\ \/ /\ viewWrappers \in FilterLists
          /\ hiddenHosts \in SUBSET {"a", "b"}
          /\ filterMode \in FilterModes
          /\ sortMode \in {"Status", "IP"}
       \/ /\ viewWrappers \in SortLists
          /\ hiddenHosts = {}
          /\ filterMode = "All"
          /\ sortMode \in SortModes
       \/ /\ viewWrappers \in IpLists
          /\ hiddenHosts = {}
          /\ filterMode = "All"
          /\ sortMode = "IP"
    /\ filtered = << >>
    /\ evaluated = FALSE

\* The values the other specifications keep for the variables of the view.
IdleViewVars ==
    /\ viewWrappers = << >>
    /\ hiddenHosts = {}
    /\ filterMode = "Smart"
    /\ sortMode = "IP"
    /\ filtered = << >>
    /\ evaluated = FALSE

\* The hosts of the short lists of SpecRepl, and the short lists: hosts are
\* numbered, a list names no host twice.
ShortHosts == 1..2

ShortLists ==
    { q \in UNION { [1..n -> ShortHosts] : n \in 0..MaxReplShort } :
          \A i, j \in 1..Len(q) : i # j => q[i] # q[j] }

\* The long list: hosts 1 to MaxReplFleet.
LongList == [ i \in 1..MaxReplFleet |-> i ]

\* The backing arrays and the wrapper objects a run may make.
MaxArrays == 1 + MaxRepl + MaxReads

MaxWrappers == MaxReplShort + MaxRepl * MaxReplFleet

\* No object.
NoWrapper == [ host |-> 0, started |-> FALSE, stopped |-> FALSE, seen |-> FALSE ]

\* NewPingWrapper(host, ...): neither started nor stopped, no reply seen.
NewPingWrapper(h) == [ host |-> h, started |-> FALSE, stopped |-> FALSE, seen |-> FALSE ]

\* make([]PingWrapperInterface, n): n nil slots.
MakeSlice(n) == [ i \in 1..n |-> 0 ]

\* The orchestrator after InitHosts(list), Start() and
\* StartPeriodicDNSUpdates(): the wrappers of the list are started, the DNS
\* activity runs, nobody holds w.mu.
InitReplVars ==
    /\ lists \in { << q >> : q \in ShortLists }
    /\ wr = [ w \in 1..MaxWrappers |->
                IF w <= Len(lists[1])
                THEN [ NewPingWrapper(lists[1][w]) EXCEPT !.started = TRUE ]
                ELSE NoWrapper ]
    /\ made = Len(lists[1])
    /\ heap = [ a \in 1..MaxArrays |->
                  IF a = 1 THEN [ i \in 1..Len(lists[1]) |-> i ] ELSE << >> ]
    /\ arrays = 1
    /\ ping_wrappers = 1
    /\ mu = "free"
    /\ rhPc = "idle"
    /\ rhHosts = << >>
    /\ rhOld = 0
    /\ rhNew = 0
    /\ rhIdx = 0
    /\ pauseAt = {}
    /\ rhDnsRunning = TRUE
    /\ out = 0
    /\ reads = 0
    /\ replies = 0
    /\ obsAfter = << >>
    /\ rhOp = "init"

\* The values the other specifications keep for the variables of SpecRepl.
IdleReplVars ==
    /\ InitReplVars
    /\ lists = << << >> >>

\* 2^n.
RECURSIVE Pow2(_)
Pow2(n) == IF n = 0 THEN 1 ELSE 2 * Pow2(n - 1)

\* The addresses ExpandCIDR can hold in memory.
MaxIps == Pow2(AddrBits) + 1

\* ip.Mask(ipnet.Mask): the host bits are cleared.
MaskIp(x, prefix) == x - (x % Pow2(AddrBits - prefix))

\* ExpandCIDR(cidr) after net.ParseCIDR accepted the string: the loop starts
\* at the network address.
InitCidrVars ==
    /\ cidrAddr \in 0..(Pow2(AddrBits) - 1)
    /\ cidrPrefix \in 0..AddrBits
    /\ cidrIp = MaskIp(cidrAddr, cidrPrefix)
    /\ ips = << >>
    /\ cidrPc = "loop"

\* The values the other specifications keep for the variables of SpecCidr.
IdleCidrVars ==
    /\ InitCidrVars
    /\ cidrAddr = 0
    /\ cidrPrefix = AddrBits

\* RunPingOnce(hosts, onlyOnline, onlyOffline, logFile) at its first line.
InitOnceVars ==
    /\ onceN \in (0..MaxOnceSmall) \cup {MaxOnceFleet}
    /\ onlyOnline \in IF onceN <= MaxOnceSmall THEN BOOLEAN ELSE {FALSE}
    /\ onlyOffline \in IF onceN <= MaxOnceSmall THEN BOOLEAN ELSE {FALSE}
    /\ answers = IF onceN <= MaxOnceSmall THEN {"Online", "Offline", "Error"} ELSE {"Online"}
    /\ spawned = 0
    /\ waiting = 0
    /\ inflight = 0
    /\ finished = 0
    /\ results = 0
    /\ closed = FALSE
    /\ resultList = 0
    /\ oncePc = "launch"

\* The values the other specifications keep for the variables of SpecOnce.
IdleOnceVars ==
    /\ InitOnceVars
    /\ onceN = 0
    /\ onlyOnline = FALSE
    /\ onlyOffline = FALSE

\* The targets of SpecLookup: two IP literals (one in brackets) and a name.
Originals == {"10.0.0.1", "[fe80::1]", "web"}

\* What a resolver can answer to a reverse lookup: names or an error.
Answers ==
    { [ names |-> << "host.lan." >>, err |-> FALSE ],
      [ names |-> << "host.lan" >>, err |-> FALSE ],
      [ names |-> << >>, err |-> FALSE ],
      [ names |-> << >>, err |-> TRUE ] }

\* hostDisplayName(original, ip) at its first line.
InitLookupVars ==
    /\ hdOriginal \in Originals
    /\ hdIp \in {"nil", "addr"}
    /\ hdAnswer \in Answers
    /\ hdPc = "entry"
    /\ hdAge = 0
    /\ hdResult = ""

\* The values the other specifications keep for the variables of SpecLookup.
IdleLookupVars ==
    /\ InitLookupVars
    /\ hdOriginal = "web"
    /\ hdIp = "nil"
    /\ hdAnswer = [ names |-> << >>, err |-> TRUE ]

\* No entry in d.dnsCache.
NoEntry == [ found |-> FALSE, name |-> "", expiresAt |-> 0 ]

\* NewDNSUpdater: an empty cache.  The wrapper of the IP has no name yet or
\* carries the literal it was given.
InitCacheVars ==
    /\ cacheNow = 0
    /\ dnsCache = NoEntry
    /\ cHrepr \in {"", "10.0.0.1"}
    /\ cUp \in BOOLEAN
    /\ cPc = "idle"
    /\ cOp = "init"

\* The values the other specifications keep for the variables of SpecCache.
IdleCacheVars ==
    /\ InitCacheVars
    /\ cHrepr = ""
    /\ cUp = FALSE

\* The hosts of SpecNav, the lists the host editor may hold, the heights a
\* WindowSizeMsg may bring.
NavHosts == {"a", "b"}

NavLists == { << >>, << "b", "a" >> }

\* The reply histories of the targets of SpecNav: each has had a reply.
NavPresences == {"down", "up"}

Heights == {MaxHeight}

\* What Update has done last: the message (of the keys, Ctrl+C, Esc and Enter
\* are told apart), the command returned, the call made on the orchestrator.
LastOf(msg, cmd, call) ==
    [ msg  |-> IF msg \in {"init", "tick", "size", "ctrl+c", "esc", "enter"} THEN msg ELSE "key",
      cmd  |-> cmd,
      call |-> call ]

\* NewTUIModel over an orchestrator that holds two targets: nothing is
\* selected, nothing hidden, the sort is by address, no window size is known.
InitNavVars ==
    /\ navWrappers = << "a", "b" >>
    /\ navStats \in [ NavHosts -> NavPresences ]
    /\ navHidden = {}
    /\ navFilter = "Smart"
    /\ navSort = "IP"
    /\ cursor = -1
    /\ scrollOffset = 0
    /\ height = 0
    /\ showDetails = FALSE
    /\ navEditing = FALSE
    /\ navInput = << >>
    /\ navQuitting = FALSE
    /\ navLast = LastOf("init", "tick", "none")

\* The values the other specifications keep for the variables of SpecNav.
IdleNavVars ==
    /\ InitNavVars
    /\ navStats = [ h \in NavHosts |-> "down" ]

InitStats == InitStatsVars /\ InitStartVars /\ IdleDnsVars /\ IdleTuiVars /\ IdleMainVars /\ IdlePassVars /\ IdleViewVars /\ IdleReplVars /\ IdleCidrVars /\ IdleOnceVars /\ IdleLookupVars /\ IdleCacheVars /\ IdleNavVars

\* The wall clock advances.
Tick ==
    /\ clock < StartClock + MaxTicks
    /\ clock' = clock + 1
    /\ op' = "tick"
    /\ UNCHANGED <<st, written, notStatsVars>>

\* A probe reply arrives: the strategy stores the receive time.
ProbeReply ==
    /\ st' = [ st EXCEPT !.lastrecv = clock, !.has_ever_received = TRUE ]
    /\ op' = "reply"
    /\ UNCHANGED <<clock, written, notStatsVars>>

\* CalcStats(2 * 1e9) on the target: ComputeState under the Stats lock; the
\* writer (always constructed by main) receives what it emits.
CalcStats ==
    LET r == ComputeState(st, clock, TimeoutThreshold)
    IN  /\ st' = r.stats
        /\ written' = written \o r.emitted
        /\ op' = "compute"
        /\ UNCHANGED <<clock, notStatsVars>>

NextStats == Tick \/ ProbeReply \/ CalcStats

SpecStats == InitStats /\ [][NextStats]_vars

(***************************************************************************)
(* SpecStart: RunTUI's startup phase around WrapperHolder.Start()          *)
(*                                                                         *)
(* The launcher goroutines of one Start() differ only in the wrapper they  *)
(* were handed, so the model keeps how many of them are at each program    *)
(* point: spawned and not yet past "sem <- struct{}{}" (gWait), inside     *)
(* pw.Start() (gIn), or finished.                                          *)
(***************************************************************************)

\* A send on a channel whose buffer never fills.
SemHasRoom_Unbounded(tokens) == TRUE

\* "sem <- struct{}{}" proceeds while the buffer of capacity 20 has room.
SemHasRoom(tokens) == tokens < StartConcurrency

\* A release that is not deferred and so is skipped by a panic.
SemAfterPanic_NotReleased(tokens) == tokens

\* The deferred "<-sem" also runs when pw.Start() panics.
SemAfterPanic(tokens) == tokens - 1

\* The error_message of a strategy after the deferred recover of its
\* launcher goroutine has run: the handler prints "PANIC starting wrapper"
\* to stderr and writes nothing to the wrapper.
ErrorAfterRecover(error_message) == error_message

\* if i >= 10 && i < len(wrappers)-1 && i%10 == 0 { time.Sleep(1 ms) }
StartPauseAfter(i, n) == i >= 10 /\ i < n - 1 /\ i % 10 = 0

\* WrapperHolder.Stop(): StopPeriodicDNSUpdates() (the DNS activity is not
\* running in this phase), then Stop() on every wrapper of the list.
WhStop ==
    /\ running' = 0
    /\ stopCalls' = stopCalls + 1

\* The startup is held up only by strategies whose Start() has not returned:
\* the launching loop is over and every goroutine outside pw.Start() is
\* blocked on the full semaphore.  Only then can 60 s pass.
StartupHeldUp ==
    /\ launchPc = "wait"
    /\ gIn > 0
    /\ gWait > 0 => ~SemHasRoom(sem)

ProcessAlive == tuiPc # "exited"

\* RunTUI spawns the goroutine that calls wh.Start(): wrappers := w.Wrappers().
LaunchStart ==
    /\ launchPc = "idle"
    /\ tuiPc = "select"
    /\ \E n \in 0..MaxFleet : fleetN' = n
    /\ launchPc' = "loop"
    /\ UNCHANGED <<launchIdx, gWait, gIn, sem, wg, startCalls, panics, failErrs, startErr, pauses,
                   running, startDone, tuiPc, tuiErr, stopCalls, notStartVars>>

\* One iteration of the launching loop: wg.Add(1), go func(idx, pw), and the
\* pause after every 10th wrapper.
LaunchOne ==
    /\ ProcessAlive
    /\ launchPc = "loop"
    /\ launchIdx < fleetN
    /\ wg' = wg + 1
    /\ gWait' = gWait + 1
    /\ pauses' = IF StartPauseAfter(launchIdx, fleetN) THEN pauses + 1 ELSE pauses
    /\ launchIdx' = launchIdx + 1
    /\ UNCHANGED <<fleetN, launchPc, gIn, sem, startCalls, panics, failErrs, startErr, running,
                   startDone, tuiPc, tuiErr, stopCalls, notStartVars>>

\* The loop is over: the launching path reaches wg.Wait().
LaunchLoopEnds ==
    /\ ProcessAlive
    /\ launchPc = "loop"
    /\ launchIdx = fleetN
    /\ launchPc' = "wait"
    /\ UNCHANGED <<fleetN, launchIdx, gWait, gIn, sem, wg, startCalls, panics, failErrs, startErr,
                   pauses, running, startDone, tuiPc, tuiErr, stopCalls, notStartVars>>

\* A launcher goroutine gets its slot and calls pw.Start().
GoAcquireAndCall ==
    /\ ProcessAlive
    /\ gWait > 0
    /\ SemHasRoom(sem)
    /\ sem' = sem + 1
    /\ gWait' = gWait - 1
    /\ gIn' = gIn + 1
    /\ startCalls' = startCalls + 1
    /\ UNCHANGED <<fleetN, launchPc, launchIdx, wg, panics, failErrs, startErr, pauses, running,
                   startDone, tuiPc, tuiErr, stopCalls, notStartVars>>

\* pw.Start() returns: the deferred "<-sem" and wg.Done() run.
GoStartReturns ==
    /\ ProcessAlive
    /\ gIn > 0
    /\ gIn' = gIn - 1
    /\ sem' = sem - 1
    /\ wg' = wg - 1
    /\ running' = running + 1
    /\ UNCHANGED <<fleetN, launchPc, launchIdx, gWait, startCalls, panics, failErrs, startErr, pauses,
                   startDone, tuiPc, tuiErr, stopCalls, notStartVars>>

\* pw.Start() panics: the deferred functions run in reverse order (release
\* the slot, recover and log, wg.Done()).
GoStartPanics ==
    /\ ProcessAlive
    /\ gIn > 0
    /\ panics < MaxPanics
    /\ gIn' = gIn - 1
    /\ sem' = SemAfterPanic(sem)
    /\ wg' = wg - 1
    /\ panics' = panics + 1
    /\ failErrs' = failErrs \cup {ErrorAfterRecover("")}
    /\ UNCHANGED <<fleetN, launchPc, launchIdx, gWait, startCalls, startErr, pauses, running,
                   startDone, tuiPc, tuiErr, stopCalls, notStartVars>>

\* wh.Start() itself panics at its first statements, before it has created a
\* launcher goroutine: the deferred recover of RunTUI's goroutine logs the
\* panic and sends the error on startErr (buffered).
StartPanics ==
    /\ ProcessAlive
    /\ launchPc = "loop"
    /\ launchIdx = 0
    /\ launchPc' = "panicked"
    /\ startErr' = 1
    /\ UNCHANGED <<fleetN, launchIdx, gWait, gIn, sem, wg, startCalls, panics, failErrs,
                   pauses, running, startDone, tuiPc, tuiErr, stopCalls, notStartVars>>

\* wg.Wait() returns, Start() returns, and RunTUI's goroutine sends on
\* startDone (buffered, so the send never blocks).
StartReturns ==
    /\ ProcessAlive
    /\ launchPc = "wait"
    /\ wg = 0
    /\ launchPc' = "returned"
    /\ startDone' = 1
    /\ UNCHANGED <<fleetN, launchIdx, gWait, gIn, sem, wg, startCalls, panics, failErrs, startErr,
                   pauses, running, tuiPc, tuiErr, stopCalls, notStartVars>>

\* select: case <-startDone.  RunTUI defers wh.Stop() and runs the program.
SelectStartDone ==
    /\ tuiPc = "select"
    /\ startDone = 1
    /\ startDone' = 0
    /\ tuiPc' = "tui"
    /\ UNCHANGED <<fleetN, launchPc, launchIdx, gWait, gIn, sem, wg, startCalls,
                   panics, failErrs, startErr, pauses, running, tuiErr, stopCalls, notStartVars>>

\* select: case err := <-startErr: return the error.
SelectStartErr ==
    /\ tuiPc = "select"
    /\ startErr = 1
    /\ startErr' = 0
    /\ tuiPc' = "returned"
    /\ tuiErr' = "start error"
    /\ UNCHANGED <<fleetN, launchPc, launchIdx, gWait, gIn, sem, wg, startCalls,
                   panics, failErrs, pauses, running, startDone, stopCalls, notStartVars>>

\* select: case <-time.After(60 * time.Second): wh.Stop() and return the error.
SelectTimeout ==
    /\ tuiPc = "select"
    /\ StartupHeldUp
    /\ WhStop
    /\ tuiPc' = "returned"
    /\ tuiErr' = "timeout"
    /\ UNCHANGED <<fleetN, launchPc, launchIdx, gWait, gIn, sem, wg, startCalls,
                   panics, failErrs, startErr, pauses, startDone, notStartVars>>

\* select: case <-sigChan: wh.Stop() and return the error.
SelectInterrupt ==
    /\ tuiPc = "select"
    /\ launchPc # "idle"
    /\ WhStop
    /\ tuiPc' = "returned"
    /\ tuiErr' = "interrupted"
    /\ UNCHANGED <<fleetN, launchPc, launchIdx, gWait, gIn, sem, wg, startCalls,
                   panics, failErrs, startErr, pauses, startDone, notStartVars>>

\* A quit key in the running program: Update calls m.wh.Stop() and returns tea.Quit.
TuiQuit ==
    /\ tuiPc = "tui"
    /\ WhStop
    /\ tuiPc' = "quit"
    /\ UNCHANGED <<fleetN, launchPc, launchIdx, gWait, gIn, sem, wg, startCalls,
                   panics, failErrs, startErr, pauses, startDone, tuiErr, notStartVars>>

\* p.Run() returns and the deferred wh.Stop() runs.
RunTUIReturns ==
    /\ tuiPc = "quit"
    /\ WhStop
    /\ tuiPc' = "returned"
    /\ UNCHANGED <<fleetN, launchPc, launchIdx, gWait, gIn, sem, wg, startCalls,
                   panics, failErrs, startErr, pauses, startDone, tuiErr, notStartVars>>

\* main returns (or calls os.Exit(1) on an error): every goroutine ends.
ProcessExits ==
    /\ tuiPc = "returned"
    /\ tuiPc' = "exited"
    /\ UNCHANGED <<fleetN, launchPc, launchIdx, gWait, gIn, sem, wg, startCalls,
                   panics, failErrs, startErr, pauses, running, startDone, tuiErr, stopCalls, notStartVars>>

\* The steps of the fleet Start() and its goroutines.
FleetStartStep ==
    \/ LaunchOne
    \/ LaunchLoopEnds
    \/ GoAcquireAndCall
    \/ GoStartReturns
    \/ GoStartPanics
    \/ StartReturns

NextStart ==
    \/ LaunchStart
    \/ FleetStartStep
    \/ StartPanics
    \/ SelectStartDone
    \/ SelectStartErr
    \/ SelectTimeout
    \/ SelectInterrupt
    \/ TuiQuit
    \/ RunTUIReturns
    \/ ProcessExits

InitStart == InitStatsVars /\ InitStartVars /\ IdleDnsVars /\ IdleTuiVars /\ IdleMainVars /\ IdlePassVars /\ IdleViewVars /\ IdleReplVars /\ IdleCidrVars /\ IdleOnceVars /\ IdleLookupVars /\ IdleCacheVars /\ IdleNavVars

SpecStart == InitStart /\ [][NextStart]_vars

(***************************************************************************)
(* SpecDns: the periodic reverse-DNS activity of the orchestrator          *)
(*                                                                         *)
(* The callers (main, the TUI's Update) call the orchestrator one call     *)
(* after the other: StartPeriodicDNSUpdates once after the fleet start,    *)
(* then ReplaceHosts any number of times, then Stop (twice when the TUI    *)
(* quits: in Update and in RunTUI's deferred call).  The DNS goroutines    *)
(* run concurrently with them.  The wrappers of a list are counted, not    *)
(* named.  A lookup goroutine that finds room in the semaphore of its pass *)
(* takes the slot in the step that made the room.                          *)
(***************************************************************************)

Min(a, b) == IF a <= b THEN a ELSE b

\* A stop that closes the channel whether or not the activity is running.
StopNeeded_Always(isRunning) == TRUE

\* A stop that never closes the channel.
StopNeeded_Never(isRunning) == FALSE

\* if !w.dnsUpdateRunning { return }
StopNeeded(isRunning) == isRunning

\* StopPeriodicDNSUpdates(), under w.mu: close(w.dnsUpdateStop) when the
\* activity is running.  close panics on a nil or closed channel.
StopPeriodicDNSUpdates ==
    IF StopNeeded(dnsUpdateRunning)
    THEN /\ closePanic' = (closePanic \/ dnsUpdateStop = 0 \/ dnsUpdateStop \in closedChans)
         /\ closedChans' = closedChans \cup ({dnsUpdateStop} \ {0})
         /\ dnsUpdateRunning' = FALSE
    ELSE UNCHANGED <<closePanic, closedChans, dnsUpdateRunning>>

\* StartPeriodicDNSUpdates(): unless the activity is running, a new stop
\* channel is stored under w.mu and a goroutine is spawned.
StartPeriodicDNSUpdates ==
    IF dnsUpdateRunning
    THEN UNCHANGED <<dnsUpdateRunning, dnsUpdateStop, dnsG, dnsStarted>>
    ELSE /\ dnsStarted' = dnsStarted + 1
         /\ dnsUpdateStop' = dnsStarted + 1
         /\ dnsUpdateRunning' = TRUE
         /\ dnsG' = [ dnsG EXCEPT ![dnsStarted + 1] = [ NoGoroutine EXCEPT !.pc = "spawned" ] ]

\* The call is within the bound on spawned goroutines.
CanStartDns == dnsUpdateRunning \/ dnsStarted < MaxDnsStarts

\* lastCall after a call named c.
Called(c) == IF lastCall[1] = c THEN << c, Min(lastCall[2] + 1, 2) >> ELSE << c, 1 >>

\* No Stop() was called yet: the program goes on.
NotStopping == lastCall[1] # "stop"

\* main: wh.StartPeriodicDNSUpdates() after the fleet start.
CallStartDns ==
    /\ replPc = "idle"
    /\ lastCall[1] = "init"
    /\ CanStartDns
    /\ StartPeriodicDNSUpdates
    /\ lastCall' = Called("startdns")
    /\ UNCHANGED <<skipDNS, closedChans, closePanic, fleetSize, listGen, fleetStopped,
                   replPc, replHosts, notDnsVars>>

\* WrapperHolder.Stop(): StopPeriodicDNSUpdates(), then Stop() on every
\* wrapper of w.Wrappers().  Called on a quit key, on RunTUI's return and by
\* the interrupt handler.
CallStop ==
    /\ replPc = "idle"
    /\ lastCall # << "stop", 2 >>
    /\ StopPeriodicDNSUpdates
    /\ fleetStopped' = TRUE
    /\ lastCall' = Called("stop")
    /\ UNCHANGED <<skipDNS, dnsUpdateStop, dnsG, dnsStarted, fleetSize, listGen,
                   replPc, replHosts, notDnsVars>>

\* ReplaceHosts(hosts), first part: w.StopPeriodicDNSUpdates().
ReplaceStopsDns ==
    /\ replPc = "idle"
    /\ NotStopping
    /\ dnsStarted < MaxDnsStarts
    /\ StopPeriodicDNSUpdates
    /\ \E n \in {0, MaxDnsFleet} : replHosts' = n
    /\ replPc' = "install"
    /\ lastCall' = Called("replace")
    /\ UNCHANGED <<skipDNS, dnsUpdateStop, dnsG, dnsStarted, fleetSize, listGen,
                   fleetStopped, notDnsVars>>

\* ReplaceHosts, second part: the new list is installed under w.mu, the old
\* wrappers are stopped and the new ones started one after the other.
ReplaceInstalls ==
    /\ replPc = "install"
    /\ fleetSize' = replHosts
    /\ listGen' = listGen + 1
    /\ fleetStopped' = FALSE
    /\ replPc' = "restart"
    /\ UNCHANGED <<skipDNS, dnsUpdateRunning, dnsUpdateStop, closedChans, closePanic,
                   dnsG, dnsStarted, replHosts, lastCall, notDnsVars>>

\* ReplaceHosts, last part: w.StartPeriodicDNSUpdates().
ReplaceRestartsDns ==
    /\ replPc = "restart"
    /\ StartPeriodicDNSUpdates
    /\ replPc' = "idle"
    /\ UNCHANGED <<skipDNS, closedChans, closePanic, fleetSize, listGen, fleetStopped,
                   replHosts, lastCall, notDnsVars>>

\* The channel a select of goroutine g receives from.  "case <-w.dnsUpdateStop"
\* reads the field without w.mu while StartPeriodicDNSUpdates writes it: the
\* read yields the value of the latest start or of an earlier one, back to
\* the start that spawned g.
StopChanRead(g) == { c \in 1..MaxDnsStarts : g <= c /\ c <= dnsUpdateStop }

\* The goroutine reaches its first select (initialTimer or the stop channel).
DnsEntersSelect(g) ==
    /\ dnsG[g].pc = "spawned"
    /\ \E c \in StopChanRead(g) :
           dnsG' = [ dnsG EXCEPT ![g].pc = "initial", ![g].ch = c ]
    /\ UNCHANGED <<skipDNS, dnsUpdateRunning, dnsUpdateStop, closedChans, closePanic,
                   dnsStarted, fleetSize, listGen, fleetStopped, replPc, replHosts,
                   lastCall, notDnsVars>>

\* select: case <-w.dnsUpdateStop: return.
DnsStopReceived(g) ==
    /\ dnsG[g].pc \in {"initial", "ticker"}
    /\ dnsG[g].ch \in closedChans
    /\ dnsG' = [ dnsG EXCEPT ![g] = [ NoGoroutine EXCEPT !.pc = "exited" ] ]
    /\ UNCHANGED <<skipDNS, dnsUpdateRunning, dnsUpdateStop, closedChans, closePanic,
                   dnsStarted, fleetSize, listGen, fleetStopped, replPc, replHosts,
                   lastCall, notDnsVars>>

\* select: the timer (3 s) or the ticker (60 s) fires and performDNSUpdates
\* returns at once because SkipDNS is set; the goroutine selects again.
DnsTimerSkipped(g) ==
    /\ dnsG[g].pc \in {"initial", "ticker"}
    /\ skipDNS
    /\ \E c \in StopChanRead(g) :
           dnsG' = [ dnsG EXCEPT ![g].pc = "ticker", ![g].ch = c ]
    /\ UNCHANGED <<skipDNS, dnsUpdateRunning, dnsUpdateStop, closedChans, closePanic,
                   dnsStarted, fleetSize, listGen, fleetStopped, replPc, replHosts,
                   lastCall, notDnsVars>>

\* select: the timer or the ticker fires and performDNSUpdates starts a pass
\* over w.Wrappers(): one lookup goroutine for each of the k wrappers that
\* CalcStats finds online, at most 20 of them past "sem <- struct{}{}".
DnsPassBegins(g) ==
    /\ dnsG[g].pc \in {"initial", "ticker"}
    /\ ~skipDNS
    /\ \E k \in 0..fleetSize :
           dnsG' = [ dnsG EXCEPT ![g] = [ pc |-> "pass", ch |-> 0,
                                         inflight |-> Min(k, DnsConcurrency),
                                         pending |-> k - Min(k, DnsConcurrency) ] ]
    /\ UNCHANGED <<skipDNS, dnsUpdateRunning, dnsUpdateStop, closedChans, closePanic,
                   dnsStarted, fleetSize, listGen, fleetStopped, replPc, replHosts,
                   lastCall, notDnsVars>>

\* updateHostDisplayName returns in one lookup goroutine: its slot is released
\* and taken by a waiting goroutine of the same pass, if there is one.
DnsLookupDone(g) ==
    /\ dnsG[g].pc = "pass"
    /\ dnsG[g].inflight > 0
    /\ dnsG' = IF dnsG[g].pending > 0
               THEN [ dnsG EXCEPT ![g].pending = @ - 1 ]
               ELSE [ dnsG EXCEPT ![g].inflight = @ - 1 ]
    /\ UNCHANGED <<skipDNS, dnsUpdateRunning, dnsUpdateStop, closedChans, closePanic,
                   dnsStarted, fleetSize, listGen, fleetStopped, replPc, replHosts,
                   lastCall, notDnsVars>>

\* wg.Wait() returns, the pass is over and the goroutine selects again (on
\* the ticker and the stop channel).
DnsPassEnds(g) ==
    /\ dnsG[g].pc = "pass"
    /\ dnsG[g].inflight = 0
    /\ dnsG[g].pending = 0
    /\ \E c \in StopChanRead(g) :
           dnsG' = [ dnsG EXCEPT ![g].pc = "ticker", ![g].ch = c ]
    /\ UNCHANGED <<skipDNS, dnsUpdateRunning, dnsUpdateStop, closedChans, closePanic,
                   dnsStarted, fleetSize, listGen, fleetStopped, replPc, replHosts,
                   lastCall, notDnsVars>>

NextDns ==
    \/ CallStartDns
    \/ CallStop
    \/ ReplaceStopsDns
    \/ ReplaceInstalls
    \/ ReplaceRestartsDns
    \/ \E g \in 1..MaxDnsStarts :
           \/ DnsEntersSelect(g)
           \/ DnsStopReceived(g)
           \/ DnsTimerSkipped(g)
           \/ DnsPassBegins(g)
           \/ DnsLookupDone(g)
           \/ DnsPassEnds(g)

InitDns == InitStatsVars /\ InitStartVars /\ InitDnsVars /\ IdleTuiVars /\ IdleMainVars /\ IdlePassVars /\ IdleViewVars /\ IdleReplVars /\ IdleCidrVars /\ IdleOnceVars /\ IdleLookupVars /\ IdleCacheVars /\ IdleNavVars

SpecDns == InitDns /\ [][NextDns]_vars

\* The scheduler runs a DNS goroutine that can take a step; every lookup
\* returns, so a slot is released and a pass ends; and a select that finds
\* the stop channel closed each time it is reached takes that case in the
\* end (select chooses at random among the ready cases, and the ticker is
\* ready once in 60 s).
SpecDnsFair ==
    /\ SpecDns
    /\ \A g \in 1..MaxDnsStarts :
           /\ WF_vars(DnsEntersSelect(g))
           /\ WF_vars(DnsLookupDone(g))
           /\ WF_vars(DnsPassEnds(g))
           /\ SF_vars(DnsStopReceived(g))

\* The reverse lookups in flight, over all DNS goroutines.
RECURSIVE SumInflight(_)
SumInflight(n) == IF n = 0 THEN 0 ELSE dnsG[n].inflight + SumInflight(n - 1)

LookupsInFlight == SumInflight(MaxDnsStarts)

\* The DNS goroutines that were spawned and have not returned.
LiveDnsGoroutines == { g \in 1..MaxDnsStarts : dnsG[g].pc \notin {"none", "exited"} }

(***************************************************************************)
(* SpecTui: the TUI model under Update                                     *)
(*                                                                         *)
(* bubbletea calls Update with one message at a time, so a tick and a key  *)
(* never overlap.  The text of the host editor is kept as the host list    *)
(* parseHostsInput makes of it.  A cached PWStats is kept as the number of *)
(* the list whose wrapper computed it.  The navigation fields of the model *)
(* (cursor, scrollOffset, showDetails) and the hidden hosts are not part    *)
(* of the state.                                                           *)
(***************************************************************************)

\* The event loop still hands messages to Update.
TuiRunning == ~quitting

\* updateStatsCache(): an entry is written for every wrapper of the current
\* list; the other keys of the map are left as they are.
UpdatedStatsCache ==
    [ h \in Hosts |-> IF h \in Range(wrappers) THEN wrapperGen ELSE statsCache[h] ]

\* case tickMsg: m.updateStatsCache().
TuiTick ==
    /\ TuiRunning
    /\ statsCache' = UpdatedStatsCache
    /\ UNCHANGED <<wrappers, wrapperGen, everInstalled, editingHosts, hostInput,
                   quitting, uiStops, tuiFilter, viewRecord, notTuiVars>>

\* keys.EditHosts outside the editor: the editor opens on the current list.
KeyEditHosts ==
    /\ TuiRunning
    /\ ~editingHosts
    /\ editingHosts' = TRUE
    /\ hostInput' = wrappers
    /\ UNCHANGED <<wrappers, wrapperGen, everInstalled, statsCache, quitting, uiStops,
                   tuiFilter, viewRecord, notTuiVars>>

\* The keys that edit the text of the editor (runes, space, backspace, Ctrl+L,
\* Ctrl+N), taken together up to the next Enter or Escape.
KeyEditorInput ==
    /\ TuiRunning
    /\ editingHosts
    /\ \E q \in HostLists : hostInput' = q
    /\ UNCHANGED <<wrappers, wrapperGen, everInstalled, statsCache, editingHosts,
                   quitting, uiStops, tuiFilter, viewRecord, notTuiVars>>

\* keys.Escape in the editor.
KeyEditorEscape ==
    /\ TuiRunning
    /\ editingHosts
    /\ editingHosts' = FALSE
    /\ hostInput' = << >>
    /\ UNCHANGED <<wrappers, wrapperGen, everInstalled, statsCache, quitting, uiStops,
                   tuiFilter, viewRecord, notTuiVars>>

\* keys.Enter in the editor: applyHostInput(), where ReplaceHosts makes a new
\* wrapper for every host of the input; the filter is set to All.
KeyEditorEnter ==
    /\ TuiRunning
    /\ editingHosts
    /\ wrapperGen <= MaxTuiReplaces
    /\ wrappers' = hostInput
    /\ wrapperGen' = wrapperGen + 1
    /\ everInstalled' = everInstalled \cup {Range(hostInput)}
    /\ editingHosts' = FALSE
    /\ tuiFilter' = "All"
    /\ UNCHANGED <<statsCache, hostInput, quitting, uiStops, viewRecord, notTuiVars>>

\* keys.Quit outside the editor: m.quitting = true, m.wh.Stop(), tea.Quit.
KeyQuit ==
    /\ TuiRunning
    /\ ~editingHosts
    /\ quitting' = TRUE
    /\ uiStops' = uiStops + 1
    /\ UNCHANGED <<wrappers, wrapperGen, everInstalled, statsCache, editingHosts,
                   hostInput, tuiFilter, viewRecord, notTuiVars>>

\* nextFilterMode: Smart, Online, Offline, All and round again.
nextFilterMode(current) ==
    CASE current = "Smart"   -> "Online"
      [] current = "Online"  -> "Offline"
      [] current = "Offline" -> "All"
      [] OTHER               -> "Smart"

\* keys.FilterCycle outside the editor.
KeyFilterCycle ==
    /\ TuiRunning
    /\ ~editingHosts
    /\ tuiFilter' = nextFilterMode(tuiFilter)
    /\ UNCHANGED <<wrappers, wrapperGen, everInstalled, statsCache, editingHosts,
                   hostInput, quitting, uiStops, viewRecord, notTuiVars>>

\* getCachedStats(wrapper): the cached entry if the host is a key of
\* m.statsCache, otherwise wrapper.CalcStats(2 * 1e9) on the live wrapper,
\* whose stats carry the number of the current list.
getCachedStats(h) == IF statsCache[h] # 0 THEN statsCache[h] ELSE wrapperGen

\* The wrappers of the live list for which getCachedStats falls back to
\* CalcStats.
CacheMisses == { h \in Range(wrappers) : statsCache[h] = 0 }

\* What getFilteredWrappers() lists under filter All with no host hidden:
\* every wrapper of m.wh.Wrappers() with the stats getCachedStats returns
\* for it.  The order of the list is left out.
ListedUnderAll == { [ host |-> h, stats |-> getCachedStats(h) ] : h \in Range(wrappers) }

\* View() with the editor closed: getFilteredWrappers() asks getCachedStats
\* for every wrapper of the live list.  Which targets another filter than
\* All lets through depends on the contents of their PWStats, which this
\* specification does not keep, so only a listing under All is recorded.
TuiView ==
    /\ TuiRunning
    /\ ~editingHosts
    /\ viewMisses' = CacheMisses
    /\ IF tuiFilter = "All"
       THEN /\ viewed' = TRUE
            /\ viewCache' = statsCache
            /\ viewOut' = ListedUnderAll
       ELSE UNCHANGED <<viewed, viewCache, viewOut>>
    /\ UNCHANGED <<wrappers, wrapperGen, everInstalled, statsCache, editingHosts,
                   hostInput, quitting, uiStops, tuiFilter, notTuiVars>>

NextTui ==
    \/ TuiTick
    \/ KeyEditHosts
    \/ KeyEditorInput
    \/ KeyEditorEscape
    \/ KeyEditorEnter
    \/ KeyQuit
    \/ KeyFilterCycle
    \/ TuiView

InitTui == InitStatsVars /\ InitStartVars /\ IdleDnsVars /\ InitTuiVars /\ IdleMainVars /\ IdlePassVars /\ IdleViewVars /\ IdleReplVars /\ IdleCidrVars /\ IdleOnceVars /\ IdleLookupVars /\ IdleCacheVars /\ IdleNavVars

SpecTui == InitTui /\ [][NextTui]_vars

\* The key set of the snapshot the views read.
SnapshotKeys == { h \in Hosts : statsCache[h] # 0 }

(***************************************************************************)
(* SpecMain: the main program, its interrupt handler and the TUI's quit    *)
(*                                                                         *)
(* The orchestrator is kept as two flags (strategies running, DNS activity *)
(* running) and the number of Stop() calls; a call into it is one step.    *)
(* quitFlag is written by the handler goroutine and read by main without   *)
(* synchronisation: a read of main may still yield false after the write.  *)
(***************************************************************************)

\* An exit of the main loop that does not look at quitFlag.
LoopEnds_Always(flag) == TRUE

\* for !quitFlag { ... }: the loop ends when main reads quitFlag as true.
LoopEnds(flag) == flag

\* The process has not exited.
MainAlive == exitCode = -1

\* main, legacy modes: signal.Notify(c, os.Interrupt) and the handler
\* goroutine is spawned.  In TUI mode main goes on to wh.Start() at once.
MainBegins ==
    /\ MainAlive
    /\ mainPc = "init"
    /\ mainPc' = "start"
    /\ handlerPc' = IF mode = "tui" THEN "none" ELSE "wait"
    /\ UNCHANGED <<mode, cBuf, sigs, quitFlag, iters, whRunning, whDns, whStops,
                   mEditing, mQuitting, exitCode, notMainVars>>

\* main: wh.Start() returns.
MainStart ==
    /\ MainAlive
    /\ mainPc = "start"
    /\ whRunning' = TRUE
    /\ mainPc' = "dns"
    /\ UNCHANGED <<mode, handlerPc, cBuf, sigs, quitFlag, iters, whDns, whStops,
                   mEditing, mQuitting, exitCode, notMainVars>>

\* main: wh.StartPeriodicDNSUpdates(); then RunTUI or the legacy loop.
MainStartDns ==
    /\ MainAlive
    /\ mainPc = "dns"
    /\ whDns' = TRUE
    /\ mainPc' = IF mode = "tui" THEN "tuistart" ELSE "loop"
    /\ UNCHANGED <<mode, handlerPc, cBuf, sigs, quitFlag, iters, whRunning, whStops,
                   mEditing, mQuitting, exitCode, notMainVars>>

\* The process is sent an interrupt while a channel is registered for it
\* (c in the legacy modes, sigChan during RunTUI's startup).  The channel
\* holds one signal; a further one is dropped.
Interrupt ==
    /\ MainAlive
    /\ sigs < MaxSignals
    /\ \/ mode # "tui" /\ mainPc # "init"
       \/ mode = "tui" /\ mainPc = "tuistart"
    /\ sigs' = sigs + 1
    /\ cBuf' = 1
    /\ UNCHANGED <<mode, mainPc, handlerPc, quitFlag, iters, whRunning, whDns, whStops,
                   mEditing, mQuitting, exitCode, notMainVars>>

\* WrapperHolder.Stop() on the flags of the orchestrator.
MainWhStop ==
    /\ whRunning' = FALSE
    /\ whDns' = FALSE
    /\ whStops' = whStops + 1

\* The handler goroutine: <-c.
HandlerReceives ==
    /\ MainAlive
    /\ handlerPc = "wait"
    /\ cBuf = 1
    /\ cBuf' = 0
    /\ handlerPc' = "stop"
    /\ UNCHANGED <<mode, mainPc, sigs, quitFlag, iters, whRunning, whDns, whStops,
                   mEditing, mQuitting, exitCode, notMainVars>>

\* The handler goroutine: wh.Stop().
HandlerStop ==
    /\ MainAlive
    /\ handlerPc = "stop"
    /\ MainWhStop
    /\ handlerPc' = "flag"
    /\ UNCHANGED <<mode, mainPc, cBuf, sigs, quitFlag, iters, mEditing, mQuitting,
                   exitCode, notMainVars>>

\* The handler goroutine: quitFlag = true.
HandlerSetsFlag ==
    /\ MainAlive
    /\ handlerPc = "flag"
    /\ quitFlag' = TRUE
    /\ handlerPc' = "send"
    /\ UNCHANGED <<mode, mainPc, cBuf, sigs, iters, whRunning, whDns, whStops,
                   mEditing, mQuitting, exitCode, notMainVars>>

\* main, legacy loop: the read of quitFlag yields false (the flag is false or
\* the handler's write is not visible to main yet) and the body runs:
\* display.Update() or wh.CalcStats, then a sleep of 100 ms.
MainLoopBody ==
    /\ MainAlive
    /\ mainPc = "loop"
    /\ iters < MaxLoopIters
    /\ iters' = iters + 1
    /\ UNCHANGED <<mode, mainPc, handlerPc, cBuf, sigs, quitFlag, whRunning, whDns,
                   whStops, mEditing, mQuitting, exitCode, notMainVars>>

\* main, legacy loop: the read of quitFlag yields true, the loop ends
\* (display.Stop() in display mode) and main waits at <-quitSig.
MainLoopEnds ==
    /\ MainAlive
    /\ mainPc = "loop"
    /\ LoopEnds(quitFlag)
    /\ mainPc' = "recv"
    /\ UNCHANGED <<mode, handlerPc, cBuf, sigs, quitFlag, iters, whRunning, whDns,
                   whStops, mEditing, mQuitting, exitCode, notMainVars>>

\* quitSig is unbuffered: the handler's send and main's receive happen
\* together; main returns and the process exits.
QuitSigHandOver ==
    /\ MainAlive
    /\ mainPc = "recv"
    /\ handlerPc = "send"
    /\ handlerPc' = "done"
    /\ mainPc' = "done"
    /\ exitCode' = 0
    /\ UNCHANGED <<mode, cBuf, sigs, quitFlag, iters, whRunning, whDns, whStops,
                   mEditing, mQuitting, notMainVars>>

\* RunTUI: the startup select takes "case <-startDone" and the event loop
\* starts.
RunTuiStartupDone ==
    /\ MainAlive
    /\ mainPc = "tuistart"
    /\ mainPc' = "tui"
    /\ UNCHANGED <<mode, handlerPc, cBuf, sigs, quitFlag, iters, whRunning, whDns,
                   whStops, mEditing, mQuitting, exitCode, notMainVars>>

\* RunTUI: the startup select takes "case <-sigChan": wh.Stop(), an error is
\* returned and main calls os.Exit(1).
RunTuiInterrupted ==
    /\ MainAlive
    /\ mainPc = "tuistart"
    /\ cBuf = 1
    /\ cBuf' = 0
    /\ MainWhStop
    /\ mainPc' = "done"
    /\ exitCode' = 1
    /\ UNCHANGED <<mode, handlerPc, sigs, quitFlag, iters, mEditing, mQuitting,
                   notMainVars>>

\* RunTUI: the startup select takes "case <-time.After(60 * time.Second)":
\* wh.Stop(), an error is returned and main calls os.Exit(1).
RunTuiTimeout ==
    /\ MainAlive
    /\ mainPc = "tuistart"
    /\ MainWhStop
    /\ mainPc' = "done"
    /\ exitCode' = 1
    /\ UNCHANGED <<mode, handlerPc, cBuf, sigs, quitFlag, iters, mEditing, mQuitting,
                   notMainVars>>

\* Update, case tickMsg: the event loop goes on.
MainTuiTick ==
    /\ MainAlive
    /\ mainPc = "tui"
    /\ iters < MaxLoopIters
    /\ iters' = iters + 1
    /\ UNCHANGED <<mode, mainPc, handlerPc, cBuf, sigs, quitFlag, whRunning, whDns,
                   whStops, mEditing, mQuitting, exitCode, notMainVars>>

\* Update, keys.EditHosts outside the editor.
MainTuiKeyEditHosts ==
    /\ MainAlive
    /\ mainPc = "tui"
    /\ ~mEditing
    /\ mEditing' = TRUE
    /\ UNCHANGED <<mode, mainPc, handlerPc, cBuf, sigs, quitFlag, iters, whRunning,
                   whDns, whStops, mQuitting, exitCode, notMainVars>>

\* Update, keys.Escape in the editor.
MainTuiEditorEscape ==
    /\ MainAlive
    /\ mainPc = "tui"
    /\ mEditing
    /\ mEditing' = FALSE
    /\ UNCHANGED <<mode, mainPc, handlerPc, cBuf, sigs, quitFlag, iters, whRunning,
                   whDns, whStops, mQuitting, exitCode, notMainVars>>

\* Update, keys.Enter in the editor: applyHostInput(); ReplaceHosts starts the
\* new strategies and restarts the DNS activity.
MainTuiEditorEnter ==
    /\ MainAlive
    /\ mainPc = "tui"
    /\ mEditing
    /\ mEditing' = FALSE
    /\ whRunning' = TRUE
    /\ whDns' = TRUE
    /\ UNCHANGED <<mode, mainPc, handlerPc, cBuf, sigs, quitFlag, iters, whStops,
                   mQuitting, exitCode, notMainVars>>

\* Update, keys.Quit outside the editor: m.quitting = true, m.wh.Stop(),
\* return tea.Quit.  (In the editor every key is handled by the editor.)
MainTuiKeyQuit ==
    /\ MainAlive
    /\ mainPc = "tui"
    /\ ~mEditing
    /\ mQuitting' = TRUE
    /\ MainWhStop
    /\ mainPc' = "tuiquit"
    /\ UNCHANGED <<mode, handlerPc, cBuf, sigs, quitFlag, iters, mEditing, exitCode,
                   notMainVars>>

\* RunTUI: p.Run() returns after tea.Quit, the deferred wh.Stop() runs, RunTUI
\* returns nil and main returns.
RunTuiReturns ==
    /\ MainAlive
    /\ mainPc = "tuiquit"
    /\ MainWhStop
    /\ mainPc' = "done"
    /\ exitCode' = 0
    /\ UNCHANGED <<mode, handlerPc, cBuf, sigs, quitFlag, iters, mEditing, mQuitting,
                   notMainVars>>

NextMain ==
    \/ MainBegins
    \/ MainStart
    \/ MainStartDns
    \/ Interrupt
    \/ HandlerReceives
    \/ HandlerStop
    \/ HandlerSetsFlag
    \/ MainLoopBody
    \/ MainLoopEnds
    \/ QuitSigHandOver
    \/ RunTuiStartupDone
    \/ RunTuiInterrupted
    \/ RunTuiTimeout
    \/ MainTuiTick
    \/ MainTuiKeyEditHosts
    \/ MainTuiEditorEscape
    \/ MainTuiEditorEnter
    \/ MainTuiKeyQuit
    \/ RunTuiReturns

InitMain == InitStatsVars /\ InitStartVars /\ IdleDnsVars /\ IdleTuiVars /\ InitMainVars /\ IdlePassVars /\ IdleViewVars /\ IdleReplVars /\ IdleCidrVars /\ IdleOnceVars /\ IdleLookupVars /\ IdleCacheVars /\ IdleNavVars

SpecMain == InitMain /\ [][NextMain]_vars

\* SpecMain with the scheduling the program runs under: a goroutine that can
\* take its next step takes it, a call into the orchestrator returns, the
\* handler's write of quitFlag becomes visible to main's loop, and p.Run()
\* returns once Update has returned tea.Quit.  Interrupts and keys are up to
\* the user.
SpecMainFair ==
    /\ SpecMain
    /\ WF_vars(MainStart)
    /\ WF_vars(MainStartDns)
    /\ WF_vars(HandlerStop)
    /\ WF_vars(HandlerSetsFlag)
    /\ WF_vars(MainLoopEnds)
    /\ WF_vars(QuitSigHandOver)
    /\ WF_vars(RunTuiReturns)

\* The interrupt handler has taken the signal and not finished.
HandlerActive == handlerPc \in {"stop", "flag", "send"}

\* The main loop (the legacy loop or the TUI's event loop) has ended.
MainLoopOver == mainPc \in {"recv", "tuiquit", "done"}

(***************************************************************************)
(* SpecPass: performDNSUpdates over named targets                          *)
(*                                                                         *)
(* One DNS goroutine runs one pass after the other; probes change the      *)
(* state and the error of a target at any time.  updateHostDisplayName     *)
(* is the reverse lookup that stores the answered name as the label.       *)
(***************************************************************************)

\* A pass that looks up every target.
DnsEligible_Everyone(state, hasError) == TRUE

\* if !stats.state || stats.error_message != "" { continue }
DnsEligible(state, hasError) == state /\ ~hasError

\* A probe reply arrives or the last one grows older than the threshold: the
\* state a CalcStats yields changes.
PwStateChanges(t) ==
    /\ pwUp' = [ pwUp EXCEPT ![t] = ~@ ]
    /\ UNCHANGED <<pwErr, pwHrepr, passPc, passIdx, lookup, examined, hreprAtStart,
                   passCount, notPassVars>>

\* The strategy sets error_message on a hard failure or clears it on the next
\* success.
PwErrorChanges(t) ==
    /\ pwErr' = [ pwErr EXCEPT ![t] = ~@ ]
    /\ UNCHANGED <<pwUp, pwHrepr, passPc, passIdx, lookup, examined, hreprAtStart,
                   passCount, notPassVars>>

\* performDNSUpdates is called (SkipDNS is not set): wrappers := w.Wrappers().
PassBegins ==
    /\ passPc = "idle"
    /\ passCount < MaxPasses
    /\ passPc' = "scan"
    /\ passIdx' = 1
    /\ lookup' = [ t \in PassTargets |-> "none" ]
    /\ examined' = [ t \in PassTargets |-> NotExamined ]
    /\ hreprAtStart' = pwHrepr
    /\ passCount' = passCount + 1
    /\ UNCHANGED <<pwUp, pwErr, pwHrepr, notPassVars>>

\* One iteration of the loop over the wrappers: CalcStats, then either
\* "continue" or a lookup goroutine is spawned for the wrapper.
PassExamines ==
    /\ passPc = "scan"
    /\ passIdx <= MaxPassTargets
    /\ examined' = [ examined EXCEPT ![passIdx] = [ seen |-> TRUE, state |-> pwUp[passIdx],
                                                    hasError |-> pwErr[passIdx] ] ]
    /\ lookup' = IF DnsEligible(pwUp[passIdx], pwErr[passIdx])
                 THEN [ lookup EXCEPT ![passIdx] = "spawned" ]
                 ELSE lookup
    /\ passIdx' = passIdx + 1
    /\ UNCHANGED <<pwUp, pwErr, pwHrepr, passPc, hreprAtStart, passCount, notPassVars>>

\* The loop is over; the pass waits in wg.Wait().
PassScanEnds ==
    /\ passPc = "scan"
    /\ passIdx > MaxPassTargets
    /\ passPc' = "wait"
    /\ UNCHANGED <<pwUp, pwErr, pwHrepr, passIdx, lookup, examined, hreprAtStart,
                   passCount, notPassVars>>

\* A lookup goroutine gets past "sem <- struct{}{}".
LookupAcquires(t) ==
    /\ lookup[t] = "spawned"
    /\ Cardinality({ u \in PassTargets : lookup[u] = "running" }) < DnsConcurrency
    /\ lookup' = [ lookup EXCEPT ![t] = "running" ]
    /\ UNCHANGED <<pwUp, pwErr, pwHrepr, passPc, passIdx, examined, hreprAtStart,
                   passCount, notPassVars>>

\* updateHostDisplayName(pw) returns: the label is the answered name, or is
\* left as it was when the lookup fails; the slot is released.
LookupReturns(t) ==
    /\ lookup[t] = "running"
    /\ \E name \in Labels \cup {"failed"} :
           pwHrepr' = IF name = "failed" THEN pwHrepr ELSE [ pwHrepr EXCEPT ![t] = name ]
    /\ lookup' = [ lookup EXCEPT ![t] = "done" ]
    /\ UNCHANGED <<pwUp, pwErr, passPc, passIdx, examined, hreprAtStart, passCount,
                   notPassVars>>

\* wg.Wait() returns and performDNSUpdates with it.
PassEnds ==
    /\ passPc = "wait"
    /\ \A t \in PassTargets : lookup[t] \in {"none", "done"}
    /\ passPc' = "idle"
    /\ UNCHANGED <<pwUp, pwErr, pwHrepr, passIdx, lookup, examined, hreprAtStart,
                   passCount, notPassVars>>

NextPass ==
    \/ PassBegins
    \/ PassExamines
    \/ PassScanEnds
    \/ PassEnds
    \/ \E t \in PassTargets :
           \/ PwStateChanges(t)
           \/ PwErrorChanges(t)
           \/ LookupAcquires(t)
           \/ LookupReturns(t)

InitPass ==
    /\ InitStatsVars /\ InitStartVars /\ IdleDnsVars /\ IdleTuiVars /\ IdleMainVars
    /\ InitPassVars /\ IdleViewVars /\ IdleReplVars /\ IdleCidrVars /\ IdleOnceVars /\ IdleLookupVars /\ IdleCacheVars /\ IdleNavVars

SpecPass == InitPass /\ [][NextPass]_vars

(***************************************************************************)
(* SpecView: getFilteredWrappers as a function of its inputs               *)
(*                                                                         *)
(* Strings are compared through their rank in byte order.  An address      *)
(* literal is parsed by table into the 16 bytes net.ParseIP returns.       *)
(* sort.Slice sorts a slice of fewer than 12 elements by insertion.        *)
(***************************************************************************)

\* The rank of a string of the lists in Go's order of strings.
StrRank(str) ==
    CASE str = ""  -> 0
      [] str = "a" -> 1
      [] str = "b" -> 2
      [] str = "c" -> 3
      [] str = "d" -> 4
      [] str = "n" -> 5

\* x < y on strings.
StrLess(x, y) == StrRank(x) < StrRank(y)

Zeros(n) == [ i \in 1..n |-> 0 ]

\* net.ParseIP: the 16-byte form of a literal (an IPv4 address after the
\* prefix 0:0:0:0:0:ffff), nil (the empty sequence) for no address.
ParseIP(str) ==
    CASE str = ""            -> << >>
      [] str = "10.0.0.2"    -> Zeros(10) \o << 255, 255, 10, 0, 0, 2 >>
      [] str = "10.0.0.10"   -> Zeros(10) \o << 255, 255, 10, 0, 0, 10 >>
      [] str = "::1"         -> Zeros(15) \o << 1 >>
      [] str = "2001:db8::1" -> << 32, 1, 13, 184 >> \o Zeros(11) \o << 1 >>

\* IP.To4: the four bytes of an IPv4 address, nil for any other address.
To4(ip) ==
    IF /\ Len(ip) = 16
       /\ \A i \in 1..10 : ip[i] = 0
       /\ ip[11] = 255
       /\ ip[12] = 255
    THEN SubSeq(ip, 13, 16)
    ELSE << >>

\* ipKey: nil without address, 12 zero bytes and the four bytes of an IPv4
\* address, the 16 bytes of an IPv6 address.
ipKey(str) ==
    LET ip == ParseIP(str) IN
    IF ip = << >> THEN << >>
    ELSE IF To4(ip) # << >> THEN Zeros(12) \o To4(ip)
    ELSE ip

\* bytes.Compare: -1, 0 or 1 in lexicographic order.
RECURSIVE BytesCompare(_, _)
BytesCompare(x, y) ==
    IF x = << >> /\ y = << >> THEN 0
    ELSE IF x = << >> THEN -1
    ELSE IF y = << >> THEN 1
    ELSE IF Head(x) < Head(y) THEN -1
    ELSE IF Head(x) > Head(y) THEN 1
    ELSE BytesCompare(Tail(x), Tail(y))

\* An online test that does not look at the error.
IsOnline_IgnoresError(t) == t.state

\* isOnline := stats.state && stats.error_message == ""
IsOnline(t) == t.state /\ t.error_message = ""

\* A Smart filter that lists the online targets only.
SmartIncludes_OnlineOnly(t) == IsOnline(t)

\* case FilterSmart: if isOnline || seen
SmartIncludes(t) == IsOnline(t) \/ t.has_ever_received

\* The switch on m.filterMode.
FilterIncludes(md, t) ==
    CASE md = "All"     -> TRUE
      [] md = "Smart"   -> SmartIncludes(t)
      [] md = "Online"  -> IsOnline(t)
      [] md = "Offline" -> ~IsOnline(t)

\* The DNS name if there is one, otherwise Host().
NameOf(t) == IF t.hrepr = "" THEN t.host ELSE t.hrepr

\* The comparators handed to sort.Slice: wrapper x goes before wrapper y.
LessByName(x, y) ==
    IF IsOnline(x) # IsOnline(y) THEN IsOnline(x)
    ELSE StrLess(NameOf(x), NameOf(y))

LessByStatus(x, y) ==
    IF IsOnline(x) # IsOnline(y) THEN IsOnline(x)
    ELSE StrLess(x.host, y.host)

LessByRTT(x, y) ==
    IF IsOnline(x) # IsOnline(y) THEN IsOnline(x)
    ELSE x.lastrtt < y.lastrtt

LessByLastSeen(x, y) ==
    IF IsOnline(x) # IsOnline(y) THEN ~IsOnline(x)
    ELSE IF ~IsOnline(x) /\ ~IsOnline(y)
         THEN IF x.lastrecv = 0 /\ y.lastrecv = 0 THEN StrLess(x.host, y.host)
              ELSE IF x.lastrecv = 0 THEN FALSE
              ELSE IF y.lastrecv = 0 THEN TRUE
              ELSE x.last_loss_nano > y.last_loss_nano
    ELSE IF (x.last_loss_nano > 0) # (y.last_loss_nano > 0) THEN x.last_loss_nano > 0
    ELSE IF x.last_loss_nano > 0 /\ y.last_loss_nano > 0
         THEN x.last_loss_nano > y.last_loss_nano
    ELSE StrLess(NameOf(x), NameOf(y))

LessByIP(x, y) ==
    LET keyI == ipKey(x.iprepr)
        keyJ == ipKey(y.iprepr)
    IN  IF keyI # << >> /\ keyJ # << >> /\ keyI # keyJ THEN BytesCompare(keyI, keyJ) < 0
        ELSE IF keyI # << >> /\ keyJ = << >> THEN TRUE
        ELSE IF keyI = << >> /\ keyJ # << >> THEN FALSE
        ELSE StrLess(x.host, y.host)

\* The switch on m.sortMode.
Less(md, x, y) ==
    CASE md = "Name"     -> LessByName(x, y)
      [] md = "Status"   -> LessByStatus(x, y)
      [] md = "RTT"      -> LessByRTT(x, y)
      [] md = "LastSeen" -> LessByLastSeen(x, y)
      [] md = "IP"       -> LessByIP(x, y)

\* sort.Slice on a short slice: each element moves left while it is less
\* than its left neighbour.
RECURSIVE InsertInto(_, _, _)
InsertInto(md, q, x) ==
    IF q = << >> THEN << x >>
    ELSE IF Less(md, x, q[Len(q)])
         THEN Append(InsertInto(md, SubSeq(q, 1, Len(q) - 1), x), q[Len(q)])
         ELSE Append(q, x)

RECURSIVE SortSlice(_, _)
SortSlice(md, q) ==
    IF q = << >> THEN << >>
    ELSE InsertInto(md, SortSlice(md, SubSeq(q, 1, Len(q) - 1)), q[Len(q)])

\* The loop of getFilteredWrappers: hidden hosts are skipped, the others go
\* through the filter, in list order.
RECURSIVE FilterLoop(_, _, _)
FilterLoop(q, hidden, md) ==
    IF q = << >> THEN << >>
    ELSE LET rest == FilterLoop(Tail(q), hidden, md) IN
         IF Head(q).host \notin hidden /\ FilterIncludes(md, Head(q))
         THEN << Head(q) >> \o rest
         ELSE rest

\* getFilteredWrappers(): filter, then sort.
getFilteredWrappers(q, hidden, fmode, smode) == SortSlice(smode, FilterLoop(q, hidden, fmode))

\* A view is rendered: getFilteredWrappers() is evaluated.
Evaluate ==
    /\ ~evaluated
    /\ filtered' = getFilteredWrappers(viewWrappers, hiddenHosts, filterMode, sortMode)
    /\ evaluated' = TRUE
    /\ UNCHANGED <<viewWrappers, hiddenHosts, filterMode, sortMode, notViewVars>>

NextView == Evaluate

InitView ==
    /\ InitStatsVars /\ InitStartVars /\ IdleDnsVars /\ IdleTuiVars /\ IdleMainVars
    /\ IdlePassVars /\ InitViewVars /\ IdleReplVars /\ IdleCidrVars /\ IdleOnceVars /\ IdleLookupVars /\ IdleCacheVars /\ IdleNavVars

SpecView == InitView /\ [][NextView]_vars

\* The listed wrappers that are not hidden.
NotHidden == { t \in Range(viewWrappers) : t.host \notin hiddenHosts }

(***************************************************************************)
(* SpecRepl: ReplaceHosts against a concurrent Wrappers()                  *)
(*                                                                         *)
(* A slice is kept as the backing array it refers to, so that two slices   *)
(* that share an array are told from a slice and its copy.  ReplaceHosts   *)
(* runs on the goroutine of the TUI; another goroutine (the DNS pass, the  *)
(* status server) calls Wrappers() and may change the slice it gets.       *)
(* Probe replies arrive for running strategies.  The orchestrator was      *)
(* started before; Stop() is not part of this specification.               *)
(***************************************************************************)

\* A read lock that is granted whoever holds the lock.
RLockFree_Always(m) == TRUE

\* w.mu.RLock() is granted while no writer holds w.mu.
RLockFree(m) == m = "free"

\* A ReplaceHosts that reads old after it has installed the new slice.
OldSlice_ReadAfterInstall(current, fresh) == fresh

\* old := w.ping_wrappers, read before the new slice is assigned.
OldSlice(current, fresh) == current

\* if i >= 10 && i < len(newWrappers)-1 { time.Sleep(1 * time.Millisecond) }
SleepsAfter(i, n) == i >= 10 /\ i < n - 1

\* The hosts of a slice without nil slot, in order.
HostsOf(q) == [ i \in 1..Len(q) |-> wr[q[i]].host ]

\* What can be observed of the orchestrator: the hosts of its list, whether
\* every listed strategy is started and not stopped, whether every other
\* strategy is stopped, and whether the DNS activity runs.
Observable(dnsRunning) ==
    LET current == heap[ping_wrappers] IN
    [ hosts         |-> HostsOf(current),
      listedRunning |-> \A i \in 1..Len(current) :
                            wr[current[i]].started /\ ~wr[current[i]].stopped,
      othersStopped |-> \A w \in 1..made : w \notin Range(current) => wr[w].stopped,
      dns           |-> dnsRunning ]

\* ReplaceHosts(hosts) is called: w.StopPeriodicDNSUpdates().
ReplaceBegins ==
    /\ rhPc = "idle"
    /\ Len(lists) <= MaxRepl
    /\ mu = "free"
    /\ \E q \in ShortLists \cup {LongList} :
           /\ rhHosts' = q
           /\ lists' = Append(lists, q)
    /\ rhDnsRunning' = FALSE
    /\ pauseAt' = {}
    /\ rhPc' = "lock"
    /\ rhOp' = "replace"
    /\ UNCHANGED <<ping_wrappers, heap, arrays, wr, made, mu, rhOld, rhNew, rhIdx, out,
                   reads, replies, obsAfter, notReplVars>>

\* w.mu.Lock(); old := w.ping_wrappers; w.ping_wrappers = make(..., len(hosts)).
ReplaceLocks ==
    /\ rhPc = "lock"
    /\ mu = "free"
    /\ mu' = "writer"
    /\ rhOld' = OldSlice(ping_wrappers, arrays + 1)
    /\ arrays' = arrays + 1
    /\ heap' = [ heap EXCEPT ![arrays + 1] = MakeSlice(Len(rhHosts)) ]
    /\ ping_wrappers' = arrays + 1
    /\ rhIdx' = 0
    /\ rhPc' = "fill"
    /\ rhOp' = "replace"
    /\ UNCHANGED <<wr, made, rhHosts, rhNew, pauseAt, rhDnsRunning, out, reads, replies,
                   lists, obsAfter, notReplVars>>

\* w.ping_wrappers[i] = NewPingWrapper(host, ...), under the lock.
ReplaceFills ==
    /\ rhPc = "fill"
    /\ rhIdx < Len(rhHosts)
    /\ made' = made + 1
    /\ wr' = [ wr EXCEPT ![made + 1] = NewPingWrapper(rhHosts[rhIdx + 1]) ]
    /\ heap' = [ heap EXCEPT ![ping_wrappers][rhIdx + 1] = made + 1 ]
    /\ rhIdx' = rhIdx + 1
    /\ rhOp' = "replace"
    /\ UNCHANGED <<ping_wrappers, arrays, mu, rhPc, rhHosts, rhOld, rhNew, pauseAt,
                   rhDnsRunning, out, reads, replies, lists, obsAfter, notReplVars>>

\* newWrappers := w.ping_wrappers; w.mu.Unlock().
ReplaceUnlocks ==
    /\ rhPc = "fill"
    /\ rhIdx = Len(rhHosts)
    /\ rhNew' = ping_wrappers
    /\ mu' = "free"
    /\ rhIdx' = 0
    /\ rhPc' = "stop"
    /\ rhOp' = "replace"
    /\ UNCHANGED <<ping_wrappers, heap, arrays, wr, made, rhHosts, rhOld, pauseAt,
                   rhDnsRunning, out, reads, replies, lists, obsAfter, notReplVars>>

\* A stop loop that leaves out the last strategy of the old list.
StopLoopDone_SkipsLast(i, n) == i >= n - 1

\* for _, pw := range old: the loop is over after len(old) iterations.
StopLoopDone(i, n) == i >= n

\* for _, pw := range old { pw.Stop() }: one iteration, or the end of the
\* loop.
ReplaceStopsOld ==
    /\ rhPc = "stop"
    /\ IF ~StopLoopDone(rhIdx, Len(heap[rhOld]))
       THEN /\ wr' = [ wr EXCEPT ![heap[rhOld][rhIdx + 1]].stopped = TRUE ]
            /\ rhIdx' = rhIdx + 1
            /\ rhPc' = rhPc
       ELSE /\ rhIdx' = 0
            /\ rhPc' = "start"
            /\ wr' = wr
    /\ rhOp' = "replace"
    /\ UNCHANGED <<ping_wrappers, heap, arrays, made, mu, rhHosts, rhOld, rhNew, pauseAt,
                   rhDnsRunning, out, reads, replies, lists, obsAfter, notReplVars>>

\* for i, pw := range newWrappers { pw.Start(); sleep }: one iteration.  The
\* call of pw.Start() returns before the next one is made.
ReplaceStartsNew ==
    /\ rhPc = "start"
    /\ rhIdx < Len(heap[rhNew])
    /\ wr' = [ wr EXCEPT ![heap[rhNew][rhIdx + 1]].started = TRUE ]
    /\ pauseAt' = IF SleepsAfter(rhIdx, Len(heap[rhNew]))
                  THEN pauseAt \cup {rhIdx}
                  ELSE pauseAt
    /\ rhIdx' = rhIdx + 1
    /\ rhOp' = "replace"
    /\ UNCHANGED <<ping_wrappers, heap, arrays, made, mu, rhPc, rhHosts, rhOld, rhNew,
                   rhDnsRunning, out, reads, replies, lists, obsAfter, notReplVars>>

\* w.StartPeriodicDNSUpdates(), and ReplaceHosts returns.
ReplaceRestartsDnsAndReturns ==
    /\ rhPc = "start"
    /\ rhIdx = Len(heap[rhNew])
    /\ rhDnsRunning' = TRUE
    /\ obsAfter' = Append(obsAfter, Observable(TRUE))
    /\ rhPc' = "idle"
    /\ rhOp' = "replaced"
    /\ UNCHANGED <<ping_wrappers, heap, arrays, wr, made, mu, rhHosts, rhOld, rhNew,
                   rhIdx, pauseAt, out, reads, replies, lists, notReplVars>>

\* Wrappers() on another goroutine: under the read lock a new slice is made
\* and the slots of w.ping_wrappers are copied into it.
WrappersCall ==
    /\ reads < MaxReads
    /\ RLockFree(mu)
    /\ arrays' = arrays + 1
    /\ heap' = [ heap EXCEPT ![arrays + 1] = heap[ping_wrappers] ]
    /\ out' = arrays + 1
    /\ reads' = reads + 1
    /\ rhOp' = "read"
    /\ UNCHANGED <<ping_wrappers, wr, made, mu, rhPc, rhHosts, rhOld, rhNew, rhIdx,
                   pauseAt, rhDnsRunning, replies, lists, obsAfter, notReplVars>>

\* The caller of Wrappers() changes the slice it got: it clears the first
\* slot.
CallerChangesSlice ==
    /\ out # 0
    /\ Len(heap[out]) > 0
    /\ heap[out][1] # 0
    /\ heap' = [ heap EXCEPT ![out][1] = 0 ]
    /\ rhOp' = "change"
    /\ UNCHANGED <<ping_wrappers, arrays, wr, made, mu, rhPc, rhHosts, rhOld, rhNew,
                   rhIdx, pauseAt, rhDnsRunning, out, reads, replies, lists, obsAfter,
                   notReplVars>>

\* A reply arrives for a strategy that is started and not stopped.
ReplyArrives(w) ==
    /\ replies < MaxReplies
    /\ wr[w].started
    /\ ~wr[w].stopped
    /\ ~wr[w].seen
    /\ wr' = [ wr EXCEPT ![w].seen = TRUE ]
    /\ replies' = replies + 1
    /\ rhOp' = "reply"
    /\ UNCHANGED <<ping_wrappers, heap, arrays, made, mu, rhPc, rhHosts, rhOld, rhNew,
                   rhIdx, pauseAt, rhDnsRunning, out, reads, lists, obsAfter, notReplVars>>

NextRepl ==
    \/ ReplaceBegins
    \/ ReplaceLocks
    \/ ReplaceFills
    \/ ReplaceUnlocks
    \/ ReplaceStopsOld
    \/ ReplaceStartsNew
    \/ ReplaceRestartsDnsAndReturns
    \/ WrappersCall
    \/ CallerChangesSlice
    \/ \E w \in 1..MaxWrappers : ReplyArrives(w)

InitRepl ==
    /\ InitStatsVars /\ InitStartVars /\ IdleDnsVars /\ IdleTuiVars /\ IdleMainVars
    /\ IdlePassVars /\ IdleViewVars /\ InitReplVars /\ IdleCidrVars /\ IdleOnceVars /\ IdleLookupVars /\ IdleCacheVars /\ IdleNavVars

SpecRepl == InitRepl /\ [][NextRepl]_vars

(***************************************************************************)
(* SpecCidr: ExpandCIDR                                                    *)
(*                                                                         *)
(* An address is a number of AddrBits bits; the prefix lengths run from 0  *)
(* to AddrBits, so that AddrBits - 2 stands for /30, AddrBits - 1 for /31  *)
(* and AddrBits for /32.                                                   *)
(***************************************************************************)

\* inc(ip): the address plus one, byte by byte with carry; the address after
\* the highest one is the lowest.
inc(x) == (x + 1) % Pow2(AddrBits)

\* ipnet.Contains(ip)
Contains(x) == MaskIp(x, cidrPrefix) = MaskIp(cidrAddr, cidrPrefix)

\* A trim that always drops the first and the last address.
Trimmed_Always(q) == SubSeq(q, 2, Len(q) - 1)

\* if len(ips) > 2 { ips = ips[1 : len(ips)-1] }
Trimmed(q) == IF Len(q) > 2 THEN SubSeq(q, 2, Len(q) - 1) ELSE q

\* One iteration of the loop: ips = append(ips, ip.String()); inc(ip).
CidrLoopStep ==
    /\ cidrPc = "loop"
    /\ Contains(cidrIp)
    /\ Len(ips) < MaxIps
    /\ ips' = Append(ips, cidrIp)
    /\ cidrIp' = inc(cidrIp)
    /\ UNCHANGED <<cidrAddr, cidrPrefix, cidrPc, notCidrVars>>

\* The loop goes on after the list has filled the memory: the process dies.
CidrOutOfMemory ==
    /\ cidrPc = "loop"
    /\ Contains(cidrIp)
    /\ Len(ips) = MaxIps
    /\ cidrPc' = "oom"
    /\ UNCHANGED <<cidrAddr, cidrPrefix, cidrIp, ips, notCidrVars>>

\* The loop ends at the first address outside the block; the list is trimmed
\* and returned.
CidrReturns ==
    /\ cidrPc = "loop"
    /\ ~Contains(cidrIp)
    /\ ips' = Trimmed(ips)
    /\ cidrPc' = "returned"
    /\ UNCHANGED <<cidrAddr, cidrPrefix, cidrIp, notCidrVars>>

NextCidr == CidrLoopStep \/ CidrOutOfMemory \/ CidrReturns

InitCidr ==
    /\ InitStatsVars /\ InitStartVars /\ IdleDnsVars /\ IdleTuiVars /\ IdleMainVars
    /\ IdlePassVars /\ IdleViewVars /\ IdleReplVars /\ InitCidrVars /\ IdleOnceVars /\ IdleLookupVars /\ IdleCacheVars /\ IdleNavVars

SpecCidr == InitCidr /\ [][NextCidr]_vars

\* The call runs on while it can take a step.
SpecCidrFair == SpecCidr /\ WF_vars(NextCidr)

\* The addresses of the block of the CIDR string, in ascending order.
BlockOf(addr, prefix) ==
    [ i \in 1..Pow2(AddrBits - prefix) |-> MaskIp(addr, prefix) + i - 1 ]

(***************************************************************************)
(* SpecOnce: RunPingOnce                                                   *)
(*                                                                         *)
(* The workers are counted by the place they are at: created and blocked   *)
(* on sem, holding a slot of sem (the one probe of the target and its      *)
(* name lookup), returned.                                                 *)
(***************************************************************************)

\* An unbuffered results channel.
ResultsCap_Unbuffered(n) == 0

\* results := make(chan OnceResult, len(hosts))
ResultsCap(n) == n

\* The results one worker sends for a target with the outcome a: the error
\* and the offline result unless onlyOnline, the online result unless
\* onlyOffline.
Sends(a) ==
    IF a = "Online"
    THEN (IF onlyOffline THEN 0 ELSE 1)
    ELSE (IF onlyOnline THEN 0 ELSE 1)

\* The launching loop: wg.Add(1) and one goroutine for the next host.
OnceSpawns ==
    /\ oncePc = "launch"
    /\ spawned < onceN
    /\ spawned' = spawned + 1
    /\ waiting' = waiting + 1
    /\ UNCHANGED <<onceN, onlyOnline, onlyOffline, answers, inflight, finished, results, closed, resultList, oncePc, notOnceVars>>

\* The loop is over: the closer goroutine is created and RunPingOnce starts
\* to range over results.
OnceLaunchEnds ==
    /\ oncePc = "launch"
    /\ spawned = onceN
    /\ oncePc' = "collect"
    /\ UNCHANGED <<onceN, onlyOnline, onlyOffline, answers, spawned, waiting, inflight, finished, results, closed, resultList, notOnceVars>>

\* sem <- struct{}{}: a worker takes a slot when one is free.
WorkerAcquires ==
    /\ waiting > 0
    /\ inflight < OnceConcurrency
    /\ waiting' = waiting - 1
    /\ inflight' = inflight + 1
    /\ UNCHANGED <<onceN, onlyOnline, onlyOffline, answers, spawned, finished, results, closed, resultList, oncePc, notOnceVars>>

\* The rest of a worker: NewPinger, the one probe (Count 1, Timeout 1 s),
\* the name lookup, at most one send on results (which waits while the
\* channel is full), then the deferred <-sem and wg.Done().
WorkerFinishes ==
    /\ inflight > 0
    /\ \E a \in answers :
           /\ Sends(a) = 1 => results < ResultsCap(onceN)
           /\ results' = results + Sends(a)
    /\ inflight' = inflight - 1
    /\ finished' = finished + 1
    /\ UNCHANGED <<onceN, onlyOnline, onlyOffline, answers, spawned, waiting, closed, resultList, oncePc, notOnceVars>>

\* The closer goroutine: wg.Wait() returns when every worker has returned;
\* close(results).
CloserCloses ==
    /\ oncePc # "launch"
    /\ ~closed
    /\ finished = onceN
    /\ closed' = TRUE
    /\ UNCHANGED <<onceN, onlyOnline, onlyOffline, answers, spawned, waiting, inflight, finished, results, resultList, oncePc, notOnceVars>>

\* for res := range results { resultList = append(resultList, res) }
CollectorReceives ==
    /\ oncePc = "collect"
    /\ results > 0
    /\ results' = results - 1
    /\ resultList' = resultList + 1
    /\ UNCHANGED <<onceN, onlyOnline, onlyOffline, answers, spawned, waiting, inflight, finished, closed, oncePc, notOnceVars>>

\* The range loop ends when the channel is closed and drained.
CollectorEnds ==
    /\ oncePc = "collect"
    /\ results = 0
    /\ closed
    /\ oncePc' = "done"
    /\ UNCHANGED <<onceN, onlyOnline, onlyOffline, answers, spawned, waiting, inflight, finished, results, closed, resultList, notOnceVars>>

NextOnce ==
    \/ OnceSpawns
    \/ OnceLaunchEnds
    \/ WorkerAcquires
    \/ WorkerFinishes
    \/ CloserCloses
    \/ CollectorReceives
    \/ CollectorEnds

InitOnce ==
    /\ InitStatsVars /\ InitStartVars /\ IdleDnsVars /\ IdleTuiVars /\ IdleMainVars
    /\ IdlePassVars /\ IdleViewVars /\ IdleReplVars /\ IdleCidrVars /\ InitOnceVars /\ IdleLookupVars /\ IdleCacheVars /\ IdleNavVars

SpecOnce == InitOnce /\ [][NextOnce]_vars

\* The scheduler runs a goroutine whenever one can take a step, and every
\* probe (Timeout 1 s) and every lookup returns: the run does not stop while
\* a step is possible.
SpecOnceFair == SpecOnce /\ WF_vars(NextOnce)

(***************************************************************************)
(* SpecLookup: hostDisplayName                                             *)
(***************************************************************************)

\* strings.Trim(original, "[]")
TrimBrackets(x) == IF x = "[fe80::1]" THEN "fe80::1" ELSE x

\* net.ParseIP(x) != nil
IsIpLiteral(x) == x \in {"10.0.0.1", "fe80::1"}

\* strings.TrimSuffix(name, ".")
TrimSuffixDot(x) == IF x = "host.lan." THEN "host.lan" ELSE x

\* The checks before the lookup: a nil address or a target that is not an IP
\* literal returns the original; otherwise net.LookupAddr is called.
HdChecks ==
    /\ hdPc = "entry"
    /\ IF hdIp = "nil" \/ ~IsIpLiteral(TrimBrackets(hdOriginal))
       THEN /\ hdPc' = "returned"
            /\ hdResult' = hdOriginal
       ELSE /\ hdPc' = "lookup"
            /\ UNCHANGED hdResult
    /\ UNCHANGED <<hdOriginal, hdIp, hdAnswer, hdAge, notLookupVars>>

\* The resolver has not answered yet: net.LookupAddr, called without a
\* context, goes on waiting.
HdLookupWaits ==
    /\ hdPc = "lookup"
    /\ hdAge < MaxLookupAge
    /\ hdAge' = hdAge + 1
    /\ UNCHANGED <<hdOriginal, hdIp, hdAnswer, hdPc, hdResult, notLookupVars>>

\* net.LookupAddr returns: the original on an error or on no name, the first
\* name without its final dot otherwise.
HdLookupReturns ==
    /\ hdPc = "lookup"
    /\ hdResult' = IF hdAnswer.err \/ Len(hdAnswer.names) = 0
                   THEN hdOriginal
                   ELSE TrimSuffixDot(hdAnswer.names[1])
    /\ hdPc' = "returned"
    /\ UNCHANGED <<hdOriginal, hdIp, hdAnswer, hdAge, notLookupVars>>

NextLookup == HdChecks \/ HdLookupWaits \/ HdLookupReturns

InitLookup ==
    /\ InitStatsVars /\ InitStartVars /\ IdleDnsVars /\ IdleTuiVars /\ IdleMainVars
    /\ IdlePassVars /\ IdleViewVars /\ IdleReplVars /\ IdleCidrVars /\ IdleOnceVars
    /\ InitLookupVars /\ IdleCacheVars /\ IdleNavVars

SpecLookup == InitLookup /\ [][NextLookup]_vars

(***************************************************************************)
(* SpecCache: the caching DNSUpdater                                       *)
(*                                                                         *)
(* One wrapper and the cache entry of its IP, over passes of               *)
(* performDNSUpdates (one every 60 s, so several in one unit of time).     *)
(***************************************************************************)

\* found && time.Now().Before(entry.expiresAt)
CacheValid(entry, now) == entry.found /\ now < entry.expiresAt

\* The loop of the pass at a wrapper whose cache entry is valid goes on to
\* the next wrapper: the wrapper has a name, or it gets the cached one.
SkipsOnHit(hrepr, entry) == hrepr # "" \/ entry.name # ""

\* The second check, inside the goroutine: return without a lookup.
GoroutineSkips(hrepr, entry, now) == CacheValid(entry, now) /\ hrepr # ""

\* Time passes.
CacheTick ==
    /\ cacheNow < MaxCacheClock
    /\ cacheNow' = cacheNow + 1
    /\ cOp' = "tick"
    /\ UNCHANGED <<dnsCache, cHrepr, cUp, cPc, notCacheVars>>

\* The target goes down or comes up.
CacheTargetChanges ==
    /\ cUp' = ~cUp
    /\ cOp' = "target"
    /\ UNCHANGED <<cacheNow, dnsCache, cHrepr, cPc, notCacheVars>>

\* A pass comes to the wrapper: a target that is not online is left out; on a
\* valid entry the wrapper is left out or given the cached name; otherwise a
\* lookup goroutine is created.
CachePassExamines ==
    /\ cPc = "idle"
    /\ cOp' = "examine"
    /\ IF ~cUp
       THEN UNCHANGED <<cHrepr, cPc>>
       ELSE IF CacheValid(dnsCache, cacheNow) /\ SkipsOnHit(cHrepr, dnsCache)
       THEN /\ cHrepr' = IF cHrepr # "" THEN cHrepr ELSE dnsCache.name
            /\ UNCHANGED cPc
       ELSE /\ cPc' = "spawned"
            /\ UNCHANGED cHrepr
    /\ UNCHANGED <<cacheNow, dnsCache, cUp, notCacheVars>>

\* The goroutine has its slot and checks the cache again: it returns, or it
\* calls updateHostDisplayName.
CacheGoroutineChecks ==
    /\ cPc = "spawned"
    /\ cPc' = IF GoroutineSkips(cHrepr, dnsCache, cacheNow) THEN "idle" ELSE "lookup"
    /\ cOp' = "check"
    /\ UNCHANGED <<cacheNow, dnsCache, cHrepr, cUp, notCacheVars>>

\* updateHostDisplayName returns true: the wrapper has the answered name and
\* the cache keeps it for an hour.
CacheLookupSucceeds ==
    /\ cPc = "lookup"
    /\ cHrepr' = "host.lan"
    /\ dnsCache' = [ found |-> TRUE, name |-> "host.lan",
                     expiresAt |-> cacheNow + PositiveTtl ]
    /\ cPc' = "idle"
    /\ cOp' = "found"
    /\ UNCHANGED <<cacheNow, cUp, notCacheVars>>

\* updateHostDisplayName returns false: the wrapper is left as it was and the
\* cache keeps an entry without name for 5 minutes.
CacheLookupFails ==
    /\ cPc = "lookup"
    /\ dnsCache' = [ found |-> TRUE, name |-> "", expiresAt |-> cacheNow + NegativeTtl ]
    /\ cPc' = "idle"
    /\ cOp' = "failed"
    /\ UNCHANGED <<cacheNow, cHrepr, cUp, notCacheVars>>

NextCache ==
    \/ CacheTick
    \/ CacheTargetChanges
    \/ CachePassExamines
    \/ CacheGoroutineChecks
    \/ CacheLookupSucceeds
    \/ CacheLookupFails

InitCache ==
    /\ InitStatsVars /\ InitStartVars /\ IdleDnsVars /\ IdleTuiVars /\ IdleMainVars
    /\ IdlePassVars /\ IdleViewVars /\ IdleReplVars /\ IdleCidrVars /\ IdleOnceVars
    /\ IdleLookupVars /\ InitCacheVars /\ IdleNavVars

SpecCache == InitCache /\ [][NextCache]_vars

(***************************************************************************)
(* SpecNav: the navigation and the host editor of the TUI model            *)
(*                                                                         *)
(* Update with one message at a time.  A target is kept as its host and    *)
(* the reply history of its cached PWStats; the text of the host editor as *)
(* the host list parseHostsInput makes of it.  The status message and the  *)
(* visible columns are not part of the state.                              *)
(***************************************************************************)

\* The event loop still hands messages to Update.
NavRunning == ~navQuitting

\* visibleLines := m.height - 7; if visibleLines < 1 { visibleLines = 1 }
VisibleLines(h) == IF h - ChromeLines < 1 THEN 1 ELSE h - ChromeLines

\* An adjustScroll that only ever scrolls up.
adjustScroll_UpOnly(c, off, h) == IF c >= 0 /\ c < off THEN c ELSE off

\* adjustScroll(): the scroll offset that keeps cursor c in the window.
adjustScroll(c, off, h) ==
    IF c < 0 THEN off
    ELSE LET up == IF c < off THEN c ELSE off IN
         IF c >= up + VisibleLines(h) THEN c - VisibleLines(h) + 1 ELSE up

\* nextSortMode: Name, Status, RTT, LastSeen, IP and round again.
nextSortMode(current) ==
    CASE current = "Name"     -> "Status"
      [] current = "Status"   -> "RTT"
      [] current = "RTT"      -> "LastSeen"
      [] current = "LastSeen" -> "IP"
      [] OTHER                -> "Name"

\* m.getFilteredWrappers() on the model.
NavFilteredOf(ws, stats, hidden, fmode, smode) ==
    getFilteredWrappers([ i \in 1..Len(ws) |-> Presence(StableTarget(ws[i]), stats[ws[i]]) ],
                        hidden, fmode, smode)

NavFiltered == NavFilteredOf(navWrappers, navStats, navHidden, navFilter, navSort)

\* The keys pressed in the editor, and those pressed in the list view that
\* have no case there.
NavKeys == {"ctrl+c", "esc", "enter", "up", "backspace", "ctrl+l", "runes"}

\* A key handling in the editor that applies the input on Ctrl+L as well.
EditorKeyKind_CtrlLApplies(k) ==
    CASE k = "esc" -> "escape"
      [] k \in {"enter", "ctrl+l"} -> "enter"
      [] k \in {"backspace", "delete", "ctrl+n", "space", "runes", "q", "e", "f", "s"} -> "input"
      [] OTHER -> "none"

\* What the editor does with a key: keys.Escape, keys.Enter, the keys of the
\* inline editing (q, e, f and s come as runes), nothing.
EditorKeyKind(k) ==
    CASE k = "esc" -> "escape"
      [] k = "enter" -> "enter"
      [] k \in {"backspace", "delete", "ctrl+l", "ctrl+n", "space", "runes", "q", "e", "f", "s"} -> "input"
      [] OTHER -> "none"

\* The keys the list view has no case for.
ListKeyIgnored(k) == k \in {"backspace", "ctrl+l", "ctrl+n", "space", "runes"}

\* case tea.WindowSizeMsg
NavWindowSize ==
    /\ NavRunning
    /\ \E h \in Heights : height' = h
    /\ navLast' = LastOf("size", "nil", "none")
    /\ UNCHANGED <<navWrappers, navStats, navHidden, navFilter, navSort, cursor,
                   scrollOffset, showDetails, navEditing, navInput, navQuitting,
                   notNavVars>>

\* case tickMsg: updateStatsCache() writes the stats of every wrapper of the
\* list anew.
NavTick ==
    /\ NavRunning
    /\ \E new \in [ NavHosts -> NavPresences ] :
          /\ \A h \in NavHosts \ Range(navWrappers) : new[h] = navStats[h]
          /\ navStats' = new
    /\ navLast' = LastOf("tick", "tick", "none")
    /\ UNCHANGED <<navWrappers, navHidden, navFilter, navSort, cursor, scrollOffset,
                   height, showDetails, navEditing, navInput, navQuitting, notNavVars>>

\* keys.Escape in the editor.
NavEditorEscape ==
    /\ NavRunning
    /\ navEditing
    /\ \E k \in NavKeys :
          /\ EditorKeyKind(k) = "escape"
          /\ navLast' = LastOf(k, "nil", "none")
    /\ navEditing' = FALSE
    /\ navInput' = << >>
    /\ UNCHANGED <<navWrappers, navStats, navHidden, navFilter, navSort, cursor,
                   scrollOffset, height, showDetails, navQuitting, notNavVars>>

\* keys.Enter in the editor: applyHostInput().
NavEditorEnter ==
    /\ NavRunning
    /\ navEditing
    /\ \E k \in NavKeys :
          /\ EditorKeyKind(k) = "enter"
          /\ navLast' = LastOf(k, "nil", "ReplaceHosts")
    /\ navWrappers' = navInput
    /\ cursor' = -1
    /\ scrollOffset' = 0
    /\ navFilter' = "All"
    /\ showDetails' = FALSE
    /\ navEditing' = FALSE
    /\ UNCHANGED <<navStats, navHidden, navSort, height, navInput, navQuitting,
                   notNavVars>>

\* The inline editing: backspace, delete, Ctrl+L, Ctrl+N, space, runes.
NavEditorInput ==
    /\ NavRunning
    /\ navEditing
    /\ \E k \in NavKeys :
          /\ EditorKeyKind(k) = "input"
          /\ navLast' = LastOf(k, "nil", "none")
    /\ \E q \in NavLists : navInput' = q
    /\ UNCHANGED <<navWrappers, navStats, navHidden, navFilter, navSort, cursor,
                   scrollOffset, height, showDetails, navEditing, navQuitting,
                   notNavVars>>

\* Any other key in the editor: return m, nil.
NavEditorIgnores ==
    /\ NavRunning
    /\ navEditing
    /\ \E k \in NavKeys :
          /\ EditorKeyKind(k) = "none"
          /\ navLast' = LastOf(k, "nil", "none")
    /\ UNCHANGED <<navWrappers, navStats, navHidden, navFilter, navSort, cursor,
                   scrollOffset, height, showDetails, navEditing, navInput,
                   navQuitting, notNavVars>>

\* keys.Quit (q, Ctrl+C) outside the editor.
NavKeyQuit ==
    /\ NavRunning
    /\ ~navEditing
    /\ \E k \in {"q", "ctrl+c"} : navLast' = LastOf(k, "quit", "Stop")
    /\ navQuitting' = TRUE
    /\ UNCHANGED <<navWrappers, navStats, navHidden, navFilter, navSort, cursor,
                   scrollOffset, height, showDetails, navEditing, navInput,
                   notNavVars>>

\* keys.Escape outside the editor.
NavKeyEscape ==
    /\ NavRunning
    /\ ~navEditing
    /\ showDetails' = FALSE
    /\ navLast' = LastOf("esc", "nil", "none")
    /\ UNCHANGED <<navWrappers, navStats, navHidden, navFilter, navSort, cursor,
                   scrollOffset, height, navEditing, navInput, navQuitting,
                   notNavVars>>

\* keys.Enter outside the editor.
NavKeyEnter ==
    /\ NavRunning
    /\ ~navEditing
    /\ showDetails' = IF cursor >= 0 THEN ~showDetails ELSE showDetails
    /\ navLast' = LastOf("enter", "nil", "none")
    /\ UNCHANGED <<navWrappers, navStats, navHidden, navFilter, navSort, cursor,
                   scrollOffset, height, navEditing, navInput, navQuitting,
                   notNavVars>>

\* filtered := m.getFilteredWrappers(); if len(filtered) > 0 { the cursor
\* goes to c; m.adjustScroll() }
MoveCursor(c) ==
    IF Len(NavFiltered) > 0
    THEN /\ cursor' = c
         /\ scrollOffset' = adjustScroll(c, scrollOffset, height)
    ELSE UNCHANGED <<cursor, scrollOffset>>

\* keys.Up
NavKeyUp ==
    /\ NavRunning
    /\ ~navEditing
    /\ MoveCursor(IF cursor < 0 THEN 0 ELSE IF cursor > 0 THEN cursor - 1 ELSE cursor)
    /\ navLast' = LastOf("up", "nil", "none")
    /\ UNCHANGED <<navWrappers, navStats, navHidden, navFilter, navSort, height,
                   showDetails, navEditing, navInput, navQuitting, notNavVars>>

\* keys.Down
NavKeyDown ==
    /\ NavRunning
    /\ ~navEditing
    /\ MoveCursor(IF cursor < 0 THEN 0
                  ELSE IF cursor < Len(NavFiltered) - 1 THEN cursor + 1 ELSE cursor)
    /\ navLast' = LastOf("down", "nil", "none")
    /\ UNCHANGED <<navWrappers, navStats, navHidden, navFilter, navSort, height,
                   showDetails, navEditing, navInput, navQuitting, notNavVars>>

\* keys.PageUp
NavKeyPageUp ==
    /\ NavRunning
    /\ ~navEditing
    /\ MoveCursor(IF cursor < 0 THEN 0
                  ELSE IF cursor - VisibleLines(height) < 0 THEN 0
                  ELSE cursor - VisibleLines(height))
    /\ navLast' = LastOf("pgup", "nil", "none")
    /\ UNCHANGED <<navWrappers, navStats, navHidden, navFilter, navSort, height,
                   showDetails, navEditing, navInput, navQuitting, notNavVars>>

\* keys.PageDown
NavKeyPageDown ==
    /\ NavRunning
    /\ ~navEditing
    /\ MoveCursor(IF cursor < 0 THEN 0
                  ELSE IF cursor + VisibleLines(height) >= Len(NavFiltered)
                       THEN Len(NavFiltered) - 1
                  ELSE cursor + VisibleLines(height))
    /\ navLast' = LastOf("pgdown", "nil", "none")
    /\ UNCHANGED <<navWrappers, navStats, navHidden, navFilter, navSort, height,
                   showDetails, navEditing, navInput, navQuitting, notNavVars>>

\* keys.FilterCycle
NavKeyFilterCycle ==
    /\ NavRunning
    /\ ~navEditing
    /\ navFilter' = nextFilterMode(navFilter)
    /\ cursor' = -1
    /\ scrollOffset' = 0
    /\ navLast' = LastOf("f", "nil", "none")
    /\ UNCHANGED <<navWrappers, navStats, navHidden, navSort, height, showDetails,
                   navEditing, navInput, navQuitting, notNavVars>>

\* keys.SortCycle
NavKeySortCycle ==
    /\ NavRunning
    /\ ~navEditing
    /\ navSort' = nextSortMode(navSort)
    /\ navLast' = LastOf("s", "nil", "none")
    /\ UNCHANGED <<navWrappers, navStats, navHidden, navFilter, cursor, scrollOffset,
                   height, showDetails, navEditing, navInput, navQuitting, notNavVars>>

\* keys.HideHost: the selected host is hidden; the cursor moves up one row
\* if it was on the last row and not on the first.
NavKeyHideHost ==
    /\ NavRunning
    /\ ~navEditing
    /\ navLast' = LastOf("delete", "nil", "none")
    /\ IF cursor >= 0 /\ ~showDetails /\ cursor < Len(NavFiltered)
       THEN LET c == IF cursor >= Len(NavFiltered) - 1 /\ cursor > 0
                     THEN cursor - 1 ELSE cursor
            IN  /\ navHidden' = navHidden \cup {NavFiltered[cursor + 1].host}
                /\ cursor' = c
                /\ scrollOffset' = adjustScroll(c, scrollOffset, height)
       ELSE UNCHANGED <<navHidden, cursor, scrollOffset>>
    /\ UNCHANGED <<navWrappers, navStats, navFilter, navSort, height, showDetails,
                   navEditing, navInput, navQuitting, notNavVars>>

\* keys.ShowAll
NavKeyShowAll ==
    /\ NavRunning
    /\ ~navEditing
    /\ navHidden' = {}
    /\ navLast' = LastOf("insert", "nil", "none")
    /\ UNCHANGED <<navWrappers, navStats, navFilter, navSort, cursor, scrollOffset,
                   height, showDetails, navEditing, navInput, navQuitting, notNavVars>>

\* keys.EditHosts: the editor opens on the hosts of the list.
NavKeyEditHosts ==
    /\ NavRunning
    /\ ~navEditing
    /\ navEditing' = TRUE
    /\ navInput' = navWrappers
    /\ navLast' = LastOf("e", "nil", "none")
    /\ UNCHANGED <<navWrappers, navStats, navHidden, navFilter, navSort, cursor,
                   scrollOffset, height, showDetails, navQuitting, notNavVars>>

\* default: a key without case (the column toggles are not part of the state).
NavKeyIgnored ==
    /\ NavRunning
    /\ ~navEditing
    /\ \E k \in NavKeys :
          /\ ListKeyIgnored(k)
          /\ navLast' = LastOf(k, "nil", "none")
    /\ UNCHANGED <<navWrappers, navStats, navHidden, navFilter, navSort, cursor,
                   scrollOffset, height, showDetails, navEditing, navInput,
                   navQuitting, notNavVars>>

NextNav ==
    \/ NavWindowSize
    \/ NavTick
    \/ NavEditorEscape
    \/ NavEditorEnter
    \/ NavEditorInput
    \/ NavEditorIgnores
    \/ NavKeyQuit
    \/ NavKeyEscape
    \/ NavKeyEnter
    \/ NavKeyUp
    \/ NavKeyDown
    \/ NavKeyPageUp
    \/ NavKeyPageDown
    \/ NavKeyFilterCycle
    \/ NavKeySortCycle
    \/ NavKeyHideHost
    \/ NavKeyShowAll
    \/ NavKeyEditHosts
    \/ NavKeyIgnored

InitNav ==
    /\ InitStatsVars /\ InitStartVars /\ IdleDnsVars /\ IdleTuiVars /\ IdleMainVars
    /\ IdlePassVars /\ IdleViewVars /\ IdleReplVars /\ IdleCidrVars /\ IdleOnceVars
    /\ IdleLookupVars /\ IdleCacheVars /\ InitNavVars

SpecNav == InitNav /\ [][NextNav]_vars

(***************************************************************************)
(* Claims about the per-target fold (SpecStats)                            *)
(***************************************************************************)
\* C1: after the initialising compute, a compute whose new state differs from
\* the committed state hands exactly one record to the writer, "down to up"
\* with State true for an up state and "up to down" with State false for a
\* down state; every other compute, and every other step, hands it nothing.
C1_OneRecordPerStateChange ==
    [][ IF op' = "compute" /\ st.state_initialized /\ st'.state # st.state
        THEN /\ Len(written') = Len(written) + 1
             /\ SubSeq(written', 1, Len(written)) = written
             /\ written'[Len(written')].State = st'.state
             /\ written'[Len(written')].Transition =
                    (IF st'.state THEN "down to up" ELSE "up to down")
        ELSE written' = written ]_vars

\* C1 witness: the target went up and down again after initialisation, a
\* later compute found the state unchanged, and two records were written.
C1_Witness ==
    /\ op = "compute"
    /\ Len(written) = 2
    /\ written[1].Transition = "down to up"
    /\ written[2].Transition = "up to down"
    /\ ~st.state
    /\ st.last_seen_nano > TimeoutThreshold

\* C3: uptime_nano never decreases, and a compute adds now - last_compute
\* exactly when the state committed by the previous compute was up; the
\* initialising compute and a compute after a down state add nothing.
C3_UptimeCreditsOnlyUpTime ==
    [][ /\ st'.uptime_nano >= st.uptime_nano
        /\ op' = "compute" =>
               st'.uptime_nano =
                   st.uptime_nano + (IF st.state THEN clock - st.last_compute ELSE 0)
        /\ op' # "compute" => st'.uptime_nano = st.uptime_nano ]_vars

\* C3 witness: time was credited while the target was up, the target then
\* went down, and a compute after the down interval has run.
C3_Witness ==
    /\ op = "compute"
    /\ st.uptime_nano > 0
    /\ ~st.state
    /\ st.last_compute > st.lastrecv + TimeoutThreshold

\* C4: the first compute sets state_initialized and stores the computed
\* state without writing a record, for an up and for a down target; nothing
\* is written while state_initialized is false; state_initialized stays true.
C4_FirstComputeInitialises ==
    [][ /\ st.state_initialized => st'.state_initialized
        /\ ~st'.state_initialized => written' = << >>
        /\ (~st.state_initialized /\ op' = "compute") =>
               /\ st'.state_initialized
               /\ st'.state = (clock - st.lastrecv < TimeoutThreshold)
               /\ written' = << >> ]_vars

\* C4 witness: the first compute found the target up (the highlight skip is
\* still pending) and nothing was written.
C4_Witness ==
    /\ op = "compute"
    /\ st.state_initialized
    /\ st.state
    /\ st.skip_next_up_highlight
    /\ st.uptime_nano = 0
    /\ written = << >>

C17_UpRecordStampIsLastUpTransition ==
    [][ (op' = "compute" /\ Len(written') > Len(written)) =>
            LET rec == written'[Len(written')]
            IN  IF rec.State
                THEN rec.UnixNano = st'.last_up_transition
                ELSE rec.UnixNano = clock ]_vars

\* C17 amended: the UnixNano of every record equals the time of the compute
\* that wrote it; for a "down to up" record that is also last_up_transition
\* after the compute, except on the first up-edge after initialisation,
\* where the highlight is suppressed and last_up_transition is left as it
\* was.
C17_RecordStampIsComputeTime ==
    [][ (op' = "compute" /\ Len(written') > Len(written)) =>
            LET rec == written'[Len(written')]
            IN  /\ rec.UnixNano = clock
                /\ (rec.State /\ ~st.skip_next_up_highlight) =>
                       st'.last_up_transition = rec.UnixNano
                /\ (rec.State /\ st.skip_next_up_highlight) =>
                       st'.last_up_transition = st.last_up_transition ]_vars

\* C17 witness: three records were written, up, down and up again; the
\* stamp of the last one is the compute time and last_up_transition.
C17_Witness ==
    /\ op = "compute"
    /\ Len(written) = 3
    /\ written[1].State
    /\ ~written[2].State
    /\ written[3].State
    /\ written[3].UnixNano = clock
    /\ st.last_up_transition = clock

\* C18: OnlineUptime(now) is uptime_nano plus now - last_compute for an up
\* target and uptime_nano for a down target, and it never decreases from one
\* step to the next, whether the clock advances, a reply arrives or a
\* compute flips the state.
C18_OnlineUptimeMonotonic ==
    [][ /\ OnlineUptime(st, clock) =
               st.uptime_nano + (IF st.state THEN clock - st.last_compute ELSE 0)
        /\ OnlineUptime(st', clock') =
               st'.uptime_nano + (IF st'.state THEN clock' - st'.last_compute ELSE 0)
        /\ OnlineUptime(st', clock') >= OnlineUptime(st, clock) ]_vars

\* C18 witness: the target went up, was queried while up, went down and up
\* again, and the clock has advanced since the last compute.
C18_Witness ==
    /\ op = "tick"
    /\ st.state
    /\ Len(written) = 3
    /\ st.uptime_nano > 0
    /\ OnlineUptime(st, clock) > st.uptime_nano

(***************************************************************************)
(* Claims about the fleet start (SpecStart)                                *)
(***************************************************************************)

\* C5: at no time are more than 20 strategies inside their own Start().
C5_AtMost20ConcurrentStarts == gIn <= StartConcurrency

\* C5 witness: 20 strategies are inside Start() and a further launcher
\* goroutine is blocked on the semaphore.
C5_Witness ==
    /\ gIn = StartConcurrency
    /\ gWait > 0
    /\ fleetN > StartConcurrency

\* C6: a panic in one strategy's Start() does not stop the others: every
\* semaphore slot that is held belongs to a goroutine inside pw.Start() (the
\* slot of a failed start is released), no strategy is started twice, the
\* fleet Start() can always take a further step until it returns, and when it
\* returns every strategy's Start() has been invoked and no slot is held.
C6_PanicDoesNotAbortFleetStart ==
    /\ sem = gIn
    /\ wg = gWait + gIn
    /\ startCalls = launchIdx - gWait
    /\ (ProcessAlive /\ launchPc \in {"loop", "wait"}) => ENABLED FleetStartStep
    /\ launchPc = "returned" =>
           /\ startCalls = fleetN
           /\ sem = 0
           /\ startDone + (IF tuiPc = "select" THEN 0 ELSE 1) >= 1

\* C6 witness: the fleet Start() returned although a Start() had panicked
\* while other strategies were still to be started.
C6_Witness ==
    /\ launchPc = "returned"
    /\ panics > 0
    /\ fleetN > StartConcurrency
    /\ running = fleetN - panics

\* C8: once RunTUI has given up on the 60 s budget and called Stop(), the
\* startup activity that is still running starts no further strategy (so
\* that no strategy runs after the stop).
C8_NoStartAfterTimeoutStop ==
    [][ tuiErr = "timeout" => startCalls' = startCalls ]_vars

\* C25: a strategy whose Start() panicked during the fleet Start() carries a
\* non-empty error_message.
C25_PanickedStartCarriesError == "" \notin failErrs

\* C36: RunTUI does not return, once the fleet Start() was launched, before
\* Stop() was called on the orchestrator: after a quit, after the startup
\* timeout, after an interrupt during the startup and after a panic of the
\* start.
C36_StopBeforeRunTuiReturns ==
    tuiPc \in {"returned", "exited"} => stopCalls >= 1

\* C28: a target that never received a reply (last_recv_nano is still 0) is
\* down after any number of computes with the 2 s threshold: its state is
\* false, it has no loss event, no uptime and no up transition, and no
\* transition record has been written.
C28_SilentTargetStaysDown ==
    st.lastrecv = 0 =>
        /\ st.state = FALSE
        /\ st.has_ever_received = FALSE
        /\ st.last_loss_nano = 0
        /\ st.uptime_nano = 0
        /\ st.last_up_transition = 0
        /\ written = << >>

\* C28 witness: the target has been computed at two different times at least,
\* the last time at the end of the observed period, and never replied.
C28_Witness ==
    /\ st.lastrecv = 0
    /\ op = "compute"
    /\ clock = StartClock + MaxTicks
    /\ st.state_initialized
    /\ st.startup_time = StartClock
    /\ st.last_compute = clock

\* C33: last_up_transition changes only on a down-to-up compute.  The
\* suppress flag is set by the initialising compute alone and cleared by the
\* first down-to-up compute after it, which leaves last_up_transition
\* unchanged; every later down-to-up compute sets it to the compute time.
C33_FirstUpEdgeIsNotHighlighted ==
    [][ /\ op' # "compute" =>
               /\ st'.last_up_transition = st.last_up_transition
               /\ st'.skip_next_up_highlight = st.skip_next_up_highlight
        /\ op' = "compute" =>
               IF ~st.state_initialized
               THEN /\ st'.skip_next_up_highlight
                    /\ st'.last_up_transition = st.last_up_transition
               ELSE IF ~st.state /\ st'.state
               THEN /\ ~st'.skip_next_up_highlight
                    /\ st'.last_up_transition =
                           IF st.skip_next_up_highlight
                           THEN st.last_up_transition
                           ELSE clock
               ELSE /\ st'.skip_next_up_highlight = st.skip_next_up_highlight
                    /\ st'.last_up_transition = st.last_up_transition ]_vars

\* C33 witness: the target came up twice after its initialising compute; the
\* second up-edge has just set last_up_transition.
C33_Witness ==
    /\ op = "compute"
    /\ Len(written) = 3
    /\ written[1].Transition = "down to up"
    /\ written[3].Transition = "down to up"
    /\ written[3].UnixNano = clock
    /\ st.last_up_transition = clock
    /\ ~st.skip_next_up_highlight

(***************************************************************************)
(* Claims about the reverse-DNS activity and Stop (SpecDns)                *)
(***************************************************************************)

\* C7: calling the orchestrator's Stop() twice in a row is safe: no close of
\* a closed (or nil) channel ever panics, and the second call leaves the
\* orchestrator as the first one left it: the DNS activity not running, the
\* same stop channel, the same closed channels, the same target list.
C7_SecondStopIsNoOp ==
    [][ /\ ~closePanic'
        /\ (lastCall = << "stop", 1 >> /\ lastCall' = << "stop", 2 >>) =>
               /\ ~dnsUpdateRunning'
               /\ UNCHANGED <<dnsUpdateRunning, dnsUpdateStop, closedChans, dnsStarted,
                              dnsG, fleetSize, listGen>> ]_vars

\* C7 witness: Stop() was called twice in a row, the first call having closed
\* the stop channel of a running DNS activity.
C7_Witness ==
    /\ lastCall = << "stop", 2 >>
    /\ dnsUpdateStop \in closedChans
    /\ ~dnsUpdateRunning
    /\ ~closePanic

\* C10: at any instant at most 20 reverse-DNS lookups are in flight, over all
\* passes of the periodic DNS activity.
C10_AtMost20LookupsInFlight == LookupsInFlight <= DnsConcurrency

\* C29: once Stop() has been called, and so no start follows, every DNS
\* goroutine that was started exits in the end: none waits on a stop channel
\* that is never closed.
C29_DnsGoroutinesExitAfterStop ==
    (lastCall[1] = "stop") ~>
        (\A g \in 1..MaxDnsStarts : dnsG[g].pc \in {"none", "exited"})

\* C29 witness: the activity was started by main and again by a ReplaceHosts,
\* lookups were possible, and after Stop() both goroutines have exited.
C29_Witness ==
    /\ lastCall[1] = "stop"
    /\ ~closePanic
    /\ ~skipDNS
    /\ fleetSize = MaxDnsFleet
    /\ dnsStarted = MaxDnsStarts
    /\ closedChans = 1..MaxDnsStarts
    /\ \A g \in 1..MaxDnsStarts : dnsG[g].pc = "exited"

\* C35: at most one periodic DNS goroutine is live.  Stop does not wait for
\* the goroutine, so one that has yet to notice its closed channel is not
\* counted: at most one goroutine waits in a select on a stop channel that is
\* still open, and it waits on the channel of the start that spawned it.
C35_OneDnsGoroutine ==
    LET waitingOnOpen == { g \in LiveDnsGoroutines :
                               /\ dnsG[g].pc \in {"initial", "ticker"}
                               /\ dnsG[g].ch \notin closedChans }
    IN  /\ Cardinality(waitingOnOpen) <= 1
        /\ \A g \in waitingOnOpen : dnsG[g].ch = g

(***************************************************************************)
(* Claims about the snapshot cache (SpecTui)                               *)
(***************************************************************************)

\* C2: every stats snapshot the views read has the key set of one target
\* list, the one before or the one after a hot replace, never a union or
\* other mixture of two lists: the key set is empty (before the first tick)
\* or the host set of a list the orchestrator held.
C2_SnapshotKeysAreOneList == SnapshotKeys = {} \/ SnapshotKeys \in everInstalled

\* C19: a view that asks for the stats of a host without entry in the
\* snapshot cache does not have them computed: no listing falls back to
\* CalcStats for any of its hosts.
C19_MissDoesNotCompute == viewMisses = {}

\* C20: the listing is a function of the snapshot and the view
\* configuration: a View() under filter All that finds m.statsCache as the
\* last View() under filter All found it lists the same (host, stats) pairs,
\* whatever happened to the live target list in between.
C20_ViewDependsOnSnapshotOnly ==
    [][ (viewed /\ tuiFilter = "All" /\ statsCache = viewCache) => viewOut' = viewOut ]_vars

(***************************************************************************)
(* Claims about the shutdown path (SpecMain, SpecMainFair)                 *)
(***************************************************************************)

\* C9: the main loop ends only after Stop() was called on the orchestrator
\* (by the interrupt handler in the legacy modes, by Update on a quit key in
\* the TUI), and the program then terminates: once the handler has taken an
\* interrupt its send on quitSig is received by main and the process exits,
\* and once Update has returned tea.Quit the process exits.
C9_StopThenTerminate ==
    /\ [](MainLoopOver => whStops >= 1)
    /\ [](mQuitting => whStops >= 1)
    /\ [](mainPc = "recv" => handlerPc = "send")
    /\ (HandlerActive ~> (handlerPc = "done" /\ exitCode = 0))
    /\ (mQuitting ~> exitCode = 0)

\* C9 witness: a legacy run was interrupted while its loop was running; the
\* handler stopped the orchestrator, its send was received and the process
\* has exited.
C9_Witness ==
    /\ mode = "display"
    /\ exitCode = 0
    /\ handlerPc = "done"
    /\ iters > 0
    /\ whStops = 1
    /\ ~whRunning
    /\ quitFlag

(***************************************************************************)
(* Claims about a reverse-DNS pass (SpecPass)                              *)
(***************************************************************************)

\* C11: in a pass a lookup exists only for a target that was up and without
\* error when the pass examined it; a target that was down (or in error) at
\* that moment has no lookup in the pass and keeps the label it had when the
\* pass began.
C11_LookupOnlyForOnlineTargets ==
    \A t \in PassTargets :
        /\ lookup[t] # "none" =>
               (examined[t].seen /\ examined[t].state /\ ~examined[t].hasError)
        /\ (examined[t].seen /\ (~examined[t].state \/ examined[t].hasError)) =>
               (lookup[t] = "none" /\ pwHrepr[t] = hreprAtStart[t])

\* C11 witness: in one pass a target was examined while down and has come up
\* since, without a lookup, while another target's lookup has stored a name.
C11_Witness ==
    \E t, u \in PassTargets :
        /\ examined[t].seen
        /\ ~examined[t].state
        /\ pwUp[t]
        /\ lookup[t] = "none"
        /\ lookup[u] = "done"
        /\ pwHrepr[u] # hreprAtStart[u]

(***************************************************************************)
(* Claims about the views (SpecView)                                       *)
(***************************************************************************)

\* C12: under every sort mode the comparator is a strict total order on the
\* listed targets: of two distinct listed targets exactly one goes before the
\* other.
C12_ComparatorIsTotal ==
    evaluated =>
        \A i, j \in 1..Len(filtered) :
            i # j => (Less(sortMode, filtered[i], filtered[j])
                        # Less(sortMode, filtered[j], filtered[i]))

\* C13: under filter Smart the view lists exactly the non-hidden targets
\* whose state is true or whose has_ever_received is true, each one once.
C13_SmartListsSeenOrUp ==
    (evaluated /\ filterMode = "Smart") =>
        /\ Range(filtered) = { t \in NotHidden : t.state \/ t.has_ever_received }
        /\ Len(filtered) = Cardinality(Range(filtered))

\* C13 witness: a Smart view of three targets that lists only the one that
\* ever replied (it is down now); a target that never replied is left out.
C13_Witness ==
    /\ evaluated
    /\ filterMode = "Smart"
    /\ Len(viewWrappers) = 3
    /\ Len(filtered) = 1
    /\ ~filtered[1].state
    /\ filtered[1].has_ever_received
    /\ \E t \in NotHidden : ~t.has_ever_received

\* C14: a hidden host is listed under no filter; All lists every non-hidden
\* target; Online lists exactly the non-hidden targets with state true and no
\* error; Offline lists exactly the other non-hidden targets.
C14_FiltersPartition ==
    evaluated =>
        /\ \A t \in Range(filtered) : t.host \notin hiddenHosts
        /\ filterMode = "All" => Range(filtered) = NotHidden
        /\ filterMode = "Online" =>
               Range(filtered) = { t \in NotHidden : t.state /\ t.error_message = "" }
        /\ filterMode = "Offline" =>
               Range(filtered) = NotHidden \ { t \in NotHidden : t.state /\ t.error_message = "" }

\* C14 witness: an Offline view with a hidden host that leaves out an online
\* target and lists a target that is up but carries an error.
C14_Witness ==
    /\ evaluated
    /\ filterMode = "Offline"
    /\ hiddenHosts # {}
    /\ \E t \in NotHidden : t.state /\ t.error_message = "" /\ t \notin Range(filtered)
    /\ \E t \in Range(filtered) : t.state /\ t.error_message # ""

\* The place of an address in the order 10.0.0.2, 10.0.0.10, ::1,
\* 2001:db8::1, targets without address last.
ClaimedIpRank(str) ==
    CASE str = "10.0.0.2"    -> 1
      [] str = "10.0.0.10"   -> 2
      [] str = "::1"         -> 3
      [] str = "2001:db8::1" -> 4
      [] str = ""            -> 5

\* C15: with sort=IP the targets are listed in the order 10.0.0.2,
\* 10.0.0.10, ::1, 2001:db8::1 and the targets without resolved address come
\* after all the others.
C15_IpOrderV4BeforeV6 ==
    (evaluated /\ sortMode = "IP") =>
        \A i, j \in 1..Len(filtered) :
            i < j => ClaimedIpRank(filtered[i].iprepr) <= ClaimedIpRank(filtered[j].iprepr)

(***************************************************************************)
(* Claims about the hot replace (SpecRepl)                                 *)
(***************************************************************************)

\* C21: Wrappers() returns a copy of the current list: a call that runs
\* while ReplaceHosts is under way returns a slice without empty slot whose
\* hosts are those of a list handed to the orchestrator (the old or the new
\* one); a change of the returned slice leaves the orchestrator's list as it
\* was; no step of ReplaceHosts changes a slice returned before.
C21_WrappersIsDefensiveCopy ==
    [][ /\ rhOp' = "read" =>
               /\ \A i \in 1..Len(heap'[out']) : heap'[out'][i] # 0
               /\ \E k \in 1..Len(lists) :
                      /\ k >= Len(lists) - 1
                      /\ HostsOf(heap'[out']) = lists[k]
        /\ rhOp' = "change" => heap'[ping_wrappers] = heap[ping_wrappers]
        /\ (rhOp' \in {"replace", "replaced"} /\ out # 0) => heap'[out] = heap[out] ]_vars

\* C21 witness: a slice of two wrappers was returned between two replaces,
\* its caller cleared the first slot, and the second ReplaceHosts has
\* returned with a complete list of its own.
C21_Witness ==
    /\ rhOp = "replaced"
    /\ Len(obsAfter) = 2
    /\ out # 0
    /\ out < ping_wrappers
    /\ out > rhOld
    /\ Len(heap[out]) = 2
    /\ heap[out][1] = 0
    /\ heap[out][2] # 0
    /\ Len(heap[ping_wrappers]) > 0
    /\ \A i \in 1..Len(heap[ping_wrappers]) : heap[ping_wrappers][i] # 0

\* C22: when ReplaceHosts is called twice in a row with the same list, what
\* can be observed after the second call is what could be observed after the
\* first: the hosts of the list in order, every listed strategy started and
\* not stopped, every other strategy stopped, the DNS activity running.
C22_ReplaceTwiceIsReplaceOnce ==
    \A n \in 2..Len(obsAfter) :
        lists[n + 1] = lists[n] =>
            /\ obsAfter[n] = obsAfter[n - 1]
            /\ obsAfter[n] = [ hosts |-> lists[n + 1], listedRunning |-> TRUE,
                               othersStopped |-> TRUE, dns |-> TRUE ]

\* C22 witness: ReplaceHosts has returned twice for the same list of two
\* hosts, which is not the list the orchestrator started with.
C22_Witness ==
    /\ rhOp = "replaced"
    /\ Len(obsAfter) = 2
    /\ lists[3] = lists[2]
    /\ lists[2] # lists[1]
    /\ Len(lists[2]) = 2

\* C23: when ReplaceHosts returns, the strategy of every host that is in the
\* old and in the new list has not been stopped and the host's Stats are what
\* they were: the listed strategy has seen a reply exactly if the one listed
\* before had.
C23_KeptHostKeepsStrategy ==
    rhOp = "replaced" =>
        \A i \in 1..Len(heap[rhOld]), j \in 1..Len(heap[rhNew]) :
            wr[heap[rhOld][i]].host = wr[heap[rhNew][j]].host =>
                /\ ~wr[heap[rhOld][i]].stopped
                /\ wr[heap[rhNew][j]].seen = wr[heap[rhOld][i]].seen

\* C24: ReplaceHosts sleeps only after a target whose index i is at least 10,
\* divisible by 10 and not the last one, as the fleet Start() does.
C24_ReplacePausesLikeStart ==
    \A i \in pauseAt : i >= 10 /\ i % 10 = 0 /\ i < Len(rhHosts) - 1

\* C34: in ReplaceHosts every strategy of the old list is stopped before any
\* strategy of the new list is started, no strategy is stopped or started a
\* second time, and when ReplaceHosts returns every new strategy is started,
\* every old one is stopped and the holder lists the given hosts in the given
\* order.
C34_ReplaceStopsOldThenStartsNew ==
    [][ /\ (rhPc = "stop" /\ rhIdx' = rhIdx + 1) =>
               /\ ~wr[heap[rhOld][rhIdx + 1]].stopped
               /\ wr'[heap[rhOld][rhIdx + 1]].stopped
               /\ \A j \in 1..Len(heap[rhNew]) : ~wr'[heap[rhNew][j]].started
        /\ (rhPc = "start" /\ rhIdx' = rhIdx + 1) =>
               /\ ~wr[heap[rhNew][rhIdx + 1]].started
               /\ wr'[heap[rhNew][rhIdx + 1]].started
               /\ \A i \in 1..Len(heap[rhOld]) : wr[heap[rhOld][i]].stopped
        /\ rhOp' = "replaced" =>
               /\ \A i \in 1..Len(heap[rhOld]) : wr'[heap[rhOld][i]].stopped
               /\ \A j \in 1..Len(heap[rhNew]) :
                      wr'[heap[rhNew][j]].started /\ ~wr'[heap[rhNew][j]].stopped
               /\ \A i, j \in 1..Len(heap[rhNew]) :
                      i # j => heap[rhNew][i] # heap[rhNew][j]
               /\ \A i, j \in 1..Len(heap[rhOld]) :
                      i # j => heap[rhOld][i] # heap[rhOld][j]
               /\ HostsOf(heap'[ping_wrappers']) = rhHosts ]_vars

\* C34 witness: a ReplaceHosts with two hosts has returned over an old list
\* of two strategies.
C34_Witness ==
    /\ rhOp = "replaced"
    /\ Len(heap[rhOld]) = 2
    /\ Len(rhHosts) = 2
    /\ rhNew = ping_wrappers
    /\ \A i \in 1..2 : wr[heap[rhOld][i]].stopped /\ wr[heap[rhNew][i]].started

(***************************************************************************)
(* Claims about the CIDR expansion (SpecCidr)                              *)
(***************************************************************************)

\* C26: ExpandCIDR returns, for every block, its addresses in ascending order
\* without duplicates: the list it builds is ascending at every step, the
\* call does not run out of memory, and the list it returns is the block
\* without its first and its last address for a prefix of at most /30 and the
\* whole block for /31 and /32.
C26_ExpandCidrListsBlock ==
    /\ \A i, j \in 1..Len(ips) : i < j => ips[i] < ips[j]
    /\ cidrPc # "oom"
    /\ cidrPc = "returned" =>
           ips = IF cidrPrefix <= AddrBits - 2
                 THEN Trimmed_Always(BlockOf(cidrAddr, cidrPrefix))
                 ELSE BlockOf(cidrAddr, cidrPrefix)

\* C37: ExpandCIDR terminates for every valid CIDR string: the call returns
\* in the end, also for a block that holds the highest address and for the
\* block of all addresses, where inc wraps around to zero.
C37_ExpandCidrTerminates == <>(cidrPc = "returned")

(***************************************************************************)
(* Claims about the once mode (SpecOnce)                                   *)
(***************************************************************************)

\* C27: RunPingOnce probes each target once with at most 100 probes in
\* flight, and terminates: every target is taken by one worker, a worker that
\* holds a slot is never kept waiting by the results channel, the channel is
\* closed only after every worker has returned, the collector ends, and it
\* has then received at most one result per target and every result sent.
C27_OnceProbesAllAndTerminates ==
    /\ [](inflight <= OnceConcurrency)
    /\ [](waiting + inflight + finished = spawned /\ spawned <= onceN)
    /\ [](inflight > 0 => results < ResultsCap(onceN))
    /\ [](closed => finished = onceN)
    /\ [](oncePc = "done" => closed /\ results = 0 /\ resultList <= onceN)
    /\ <>(oncePc = "done")

\* C27 witness: the run of the large fleet has ended with one result for each
\* of its targets.
C27_Witness ==
    /\ oncePc = "done"
    /\ onceN > OnceConcurrency
    /\ finished = onceN
    /\ resultList = onceN

(***************************************************************************)
(* Claims about the reverse lookup (SpecLookup)                            *)
(***************************************************************************)

\* C30: a reverse lookup completes or is cancelled no later than 500 ms after
\* it started: hostDisplayName is never inside net.LookupAddr for longer than
\* the deadline.
C30_LookupEndsWithinDeadline == hdPc = "lookup" => hdAge <= LookupDeadline

(***************************************************************************)
(* Claims about the DNS cache (SpecCache)                                  *)
(***************************************************************************)

\* C39: no reverse lookup is issued for an IP whose cache entry has not
\* expired, be it the entry of a successful lookup (1 hour) or of a failed
\* one (5 minutes).
C39_NoLookupOnValidEntry ==
    [][ (cPc # "lookup" /\ cPc' = "lookup") => ~CacheValid(dnsCache, cacheNow) ]_vars

(***************************************************************************)
(* Claims about the navigation and the host editor (SpecNav)               *)
(***************************************************************************)

\* C31: in every state of the model, the host editor included, a Ctrl+C key
\* press sets quitting, calls Stop() on the orchestrator and returns the quit
\* command.
C31_CtrlCAlwaysQuits ==
    navLast.msg = "ctrl+c" =>
        /\ navQuitting
        /\ navLast.call = "Stop"
        /\ navLast.cmd = "quit"

\* C32: after an Up, Down, PageUp or PageDown key handled with a filtered
\* list that is not empty, scrollOffset <= cursor < scrollOffset +
\* max(1, height - 7); such a key pressed while nothing is selected selects
\* row 0.
C32_ViewportKeepsCursorVisible ==
    [][ (NavKeyUp \/ NavKeyDown \/ NavKeyPageUp \/ NavKeyPageDown) /\ Len(NavFiltered) > 0
        => /\ scrollOffset' <= cursor'
           /\ cursor' < scrollOffset' + VisibleLines(height')
           /\ (cursor = -1 => cursor' = 0) ]_vars

\* A navigation key has put the cursor on the second row of a window of one
\* line, and the window has followed.
C32_Witness ==
    /\ navLast.msg = "key"
    /\ ~navEditing
    /\ Len(NavFiltered) = 2
    /\ VisibleLines(height) = 1
    /\ cursor = 1
    /\ scrollOffset = 1

\* C38: in every reachable state the cursor is -1 or an index into the
\* current filtered list.
C38_CursorIsUnselectedOrValid ==
    cursor = -1 \/ (0 <= cursor /\ cursor < Len(NavFiltered))

====
